---------------------------- MODULE Spec2Model ----------------------------
(***************************************************************************)
(* Model of the ACE bullet store (codex-rs/core/src/ace): the similarity   *)
(* engine, the playbook data model, BulletStorage (load / save /           *)
(* merge_delta / auto_archive / query_bullets / update_bullet / clear),    *)
(* RecallTracker::record_bullet_usage and the BackgroundOptimizer phases.  *)
(*                                                                         *)
(* Texts are sequences of characters; a character is a one-token string.   *)
(* f32 values are modelled as exact rationals [n, d] (rounding of the      *)
(* float arithmetic is not modelled).  Times are seconds since the start   *)
(* of the run.                                                             *)
(***************************************************************************)
EXTENDS Integers, Sequences, FiniteSets, TLC

(***************************************************************************)
(* Bounds of the model                                                     *)
(***************************************************************************)
\* host configuration: BulletStorage::new(base_path, max_bullets)
MaxBullets == 3
\* the clock stops advancing after this many days
MaxDays == 38
\* number of operations in a run
MaxSteps == 4
\* number of callers of record_call in a run
MaxCalls == 4
\* the largest trigger_every_n_calls a configuration sets
MaxEvery == 3

(***************************************************************************)
(* Program constants                                                       *)
(***************************************************************************)
SecsPerDay == 86400
ProtectDays == 7
StaleDays == 30
MinRecalls == 5
MinContentLen == 30

(***************************************************************************)
(* Small helpers                                                           *)
(***************************************************************************)
Min2(a, b) == IF a <= b THEN a ELSE b
Max2(a, b) == IF a >= b THEN a ELSE b

RECURSIVE GCD(_, _)
GCD(a, b) == IF b = 0 THEN a ELSE GCD(b, a % b)

\* an f32 value as an exact rational with positive denominator, in lowest terms
Rat(n, d) == LET g == GCD(IF n < 0 THEN -n ELSE n, d)
             IN  IF n = 0 THEN [n |-> 0, d |-> 1] ELSE [n |-> n \div g, d |-> d \div g]
RInt(k) == [n |-> k, d |-> 1]
RAdd(a, b) == Rat(a.n * b.d + b.n * a.d, a.d * b.d)
RMul(a, b) == Rat(a.n * b.n, a.d * b.d)
RLt(a, b) == a.n * b.d < b.n * a.d
RLe(a, b) == a.n * b.d <= b.n * a.d
RGt(a, b) == RLt(b, a)
RGe(a, b) == RLe(b, a)

RECURSIVE SumSet(_, _)
\* sum of f[x] over the finite set S
SumSet(S, f) == IF S = {} THEN 0
                ELSE LET x == CHOOSE y \in S : TRUE
                     IN  f[x] + SumSet(S \ {x}, f)

SeqToSet(s) == {s[i] : i \in DOMAIN s}

RECURSIVE Flatten(_)
\* concatenation of a sequence of sequences
Flatten(ss) == IF ss = <<>> THEN <<>> ELSE Head(ss) \o Flatten(Tail(ss))

RECURSIVE FilterSeq(_, _)
\* the elements of s that are in the set Keep, in order
FilterSeq(s, Keep) == IF s = <<>> THEN <<>>
                      ELSE IF Head(s) \in Keep THEN <<Head(s)>> \o FilterSeq(Tail(s), Keep)
                      ELSE FilterSeq(Tail(s), Keep)

(***************************************************************************)
(* Characters                                                              *)
(***************************************************************************)
LowerSeq == <<"a","b","c","d","e","f","g","h","i","j","k","l","m",
              "n","o","p","q","r","s","t","u","v","w","x","y","z">>
UpperSeq == <<"A","B","C","D","E","F","G","H","I","J","K","L","M",
              "N","O","P","Q","R","S","T","U","V","W","X","Y","Z">>
LowerChars == SeqToSet(LowerSeq)
UpperChars == SeqToSet(UpperSeq)
DigitChars == {"0","1","2","3","4","5","6","7","8","9"}
SpaceChars == {" "}
\* four CJK ideographs (U+4E2D, U+6587, U+6D4B, U+8BD5), each one character
CjkChars == {"U4E2D", "U6587", "U6D4B", "U8BD5"}
VowelChars == {"a","e","i","o","u"}

\* storage.rs is_cjk / similarity.rs is_cjk
is_cjk(c) == c \in CjkChars
is_ascii_alphanumeric(c) == c \in LowerChars \cup UpperChars \cup DigitChars
\* char::is_alphanumeric: letters, digits and ideographs
is_alphanumeric(c) == is_ascii_alphanumeric(c) \/ is_cjk(c)
is_whitespace(c) == c \in SpaceChars
\* UTF-8 width of a character
ByteLenChar(c) == IF is_cjk(c) THEN 3 ELSE 1

ToLowerChar(c) == IF c \in UpperChars
                  THEN LowerSeq[CHOOSE i \in DOMAIN UpperSeq : UpperSeq[i] = c]
                  ELSE c
\* str::to_lowercase
to_lowercase(s) == [i \in DOMAIN s |-> ToLowerChar(s[i])]

RECURSIVE ByteLen(_)
\* str::len: the length in bytes
ByteLen(s) == IF s = <<>> THEN 0 ELSE ByteLenChar(Head(s)) + ByteLen(Tail(s))

\* str::contains
Contains(hay, needle) ==
    \E i \in 0..(Len(hay) - Len(needle)) : SubSeq(hay, i + 1, i + Len(needle)) = needle
EndsWith(s, suf) ==
    Len(s) >= Len(suf) /\ SubSeq(s, Len(s) - Len(suf) + 1, Len(s)) = suf

RECURSIVE SplitOn(_, _, _)
\* str::split(pred): the pieces of s between characters of Sep (empty pieces kept)
SplitOn(s, Sep, cur) ==
    IF s = <<>> THEN <<cur>>
    ELSE IF Head(s) \in Sep THEN <<cur>> \o SplitOn(Tail(s), Sep, <<>>)
    ELSE SplitOn(Tail(s), Sep, Append(cur, Head(s)))

RECURSIVE JoinWith(_, _)
\* [&str]::join(sep)
JoinWith(ws, sep) == IF ws = <<>> THEN <<>>
                     ELSE IF Len(ws) = 1 THEN Head(ws)
                     ELSE Head(ws) \o sep \o JoinWith(Tail(ws), sep)

RECURSIVE DropEmpty(_)
DropEmpty(ps) == IF ps = <<>> THEN <<>>
                 ELSE IF Head(ps) = <<>> THEN DropEmpty(Tail(ps))
                 ELSE <<Head(ps)>> \o DropEmpty(Tail(ps))

\* str::split_whitespace: the non-empty pieces between whitespace
split_whitespace(s) == DropEmpty(SplitOn(s, SpaceChars, <<>>))

(***************************************************************************)
(* Similarity engine (similarity.rs)                                       *)
(***************************************************************************)
RECURSIVE LevRow(_, _, _, _)
\* one row of the dynamic-programming matrix: acc holds matrix[i+1][0..j]
LevRow(prev, c1, s2, acc) ==
    IF Len(acc) = Len(s2) + 1 THEN acc
    ELSE LET j == Len(acc)
             cost == IF c1 = s2[j] THEN 0 ELSE 1
             v == Min2(Min2(prev[j + 1] + 1, acc[j] + 1), prev[j] + cost)
         IN  LevRow(prev, c1, s2, Append(acc, v))

RECURSIVE LevRows(_, _, _, _)
LevRows(s1, s2, i, prev) ==
    IF i > Len(s1) THEN prev
    ELSE LevRows(s1, s2, i + 1, LevRow(prev, s1[i], s2, <<i>>))

\* levenshtein_distance with the lengths of the early returns taken in bytes
levenshtein_distance_bytes(s1, s2) ==
    IF Len(s1) = 0 THEN ByteLen(s2)
    ELSE IF Len(s2) = 0 THEN ByteLen(s1)
    ELSE LevRows(s1, s2, 1, [j \in 1..(Len(s2) + 1) |-> j - 1])[Len(s2) + 1]

\* SimilarityCalculator::levenshtein_distance: the lengths are counted in
\* characters, the matrix is filled row by row
levenshtein_distance(s1, s2) ==
    IF Len(s1) = 0 THEN Len(s2)
    ELSE IF Len(s2) = 0 THEN Len(s1)
    ELSE LevRows(s1, s2, 1, [j \in 1..(Len(s2) + 1) |-> j - 1])[Len(s2) + 1]

\* 1 - distance / max(s1.len(), s2.len()), the lengths taken in bytes
similarity_score(s1, s2) ==
    LET distance == levenshtein_distance(s1, s2)
        max_len == Max2(ByteLen(s1), ByteLen(s2))
    IN  IF max_len = 0 THEN RInt(1) ELSE Rat(max_len - distance, max_len)

\* the n-grams of text in order of position; the HashMap of counts is
\* read off it with NgramCount
extract_ngrams(text, n) ==
    IF Len(text) < n THEN <<>>
    ELSE [i \in 1..(Len(text) - n + 1) |-> SubSeq(text, i, i + n - 1)]
NgramCount(grams, g) == Cardinality({i \in DOMAIN grams : grams[i] = g})

ngram_similarity(s1, s2, n) ==
    LET ngrams1 == extract_ngrams(s1, n)
        ngrams2 == extract_ngrams(s2, n)
        keys1 == SeqToSet(ngrams1)
        keys2 == SeqToSet(ngrams2)
        intersection == SumSet(keys1 \cap keys2,
                               [g \in keys1 \cap keys2 |->
                                   Min2(NgramCount(ngrams1, g), NgramCount(ngrams2, g))])
        total == SumSet(keys1, [g \in keys1 |-> NgramCount(ngrams1, g)])
                 + SumSet(keys2 \ keys1, [g \in keys2 \ keys1 |-> NgramCount(ngrams2, g)])
    IN  IF ngrams1 = <<>> /\ ngrams2 = <<>> THEN RInt(1)
        ELSE IF ngrams1 = <<>> \/ ngrams2 = <<>> THEN RInt(0)
        ELSE IF total = 0 THEN RInt(0)
        ELSE Rat(intersection, total)

\* lev * 0.4 + bigram * 0.3 + trigram * 0.3
combined_similarity(s1, s2) ==
    LET lev_score == similarity_score(s1, s2)
        bigram_score == ngram_similarity(s1, s2, 2)
        trigram_score == ngram_similarity(s1, s2, 3)
    IN  RAdd(RAdd(RMul(lev_score, Rat(4, 10)), RMul(bigram_score, Rat(3, 10))),
             RMul(trigram_score, Rat(3, 10)))

is_similar(s1, s2, threshold) == RGe(combined_similarity(s1, s2), threshold)

normalize_text(text, remove_punctuation) ==
    LET lowered == to_lowercase(text)
        kept == IF remove_punctuation
                THEN FilterSeq(lowered, {c \in SeqToSet(lowered) :
                                  is_alphanumeric(c) \/ is_whitespace(c) \/ is_cjk(c)})
                ELSE lowered
    IN  JoinWith(split_whitespace(kept), <<" ">>)


(***************************************************************************)
(* Data model (types.rs)                                                   *)
(***************************************************************************)
\* two of the seven BulletSection variants
Sections == {"General", "ToolUsageTips"}
\* the orders in which a HashMap<BulletSection, _> may iterate its keys: the
\* order depends on the hasher's random seed and is fixed per loaded map
SectionOrders == {<<"General", "ToolUsageTips">>, <<"ToolUsageTips", "General">>}

\* Option<DateTime>: <<>> is None, <<t>> is Some(t)
None == <<>>
Some(t) == <<t>>

\* Bullet::new: a bullet created at time t with default metadata, for the
\* given id (a UUID in the code, a public field a caller can set)
Bullet_new(id, section, content, t) ==
    [id |-> id, created_at |-> t, updated_at |-> t, section |-> section,
     content |-> content, tags |-> <<>>, importance |-> Rat(5, 10),
     success_count |-> 0, failure_count |-> 0, related_tools |-> <<>>,
     recall_count |-> 0, last_recall |-> None, success_rate |-> RInt(0)]

\* Bullet::record_success
record_success(b, t) == [b EXCEPT !.success_count = @ + 1, !.updated_at = t]
\* Bullet::record_failure
record_failure(b, t) == [b EXCEPT !.failure_count = @ + 1, !.updated_at = t]
\* Bullet::success_rate: computed from the counters
success_rate(b) ==
    LET total == b.success_count + b.failure_count
    IN  IF total = 0 THEN RInt(0) ELSE Rat(b.success_count, total)

\* Playbook::new (an absent HashMap key is modelled as an empty list / a zero count)
Playbook_new ==
    [version |-> 1, bullets |-> [s \in Sections |-> <<>>],
     total_bullets |-> 0, section_counts |-> [s \in Sections |-> 0]]

\* add_bullet that forgets the per-section count
add_bullet_no_section_count(pb, b) ==
    [pb EXCEPT !.bullets[b.section] = Append(@, b),
               !.total_bullets = @ + 1,
               !.version = @ + 1]

\* Playbook::add_bullet
add_bullet(pb, b) ==
    [pb EXCEPT !.bullets[b.section] = Append(@, b),
               !.total_bullets = @ + 1,
               !.section_counts[b.section] = @ + 1,
               !.version = @ + 1]

RECURSIVE add_bullets(_, _)
\* a loop of add_bullet calls over bs
add_bullets(pb, bs) ==
    IF bs = <<>> THEN pb ELSE add_bullets(add_bullet(pb, Head(bs)), Tail(bs))

\* Playbook::all_bullets: bullets.values().flatten(), the sections taken in
\* the map's iteration order
all_bullets(pb, order) == Flatten([i \in DOMAIN order |-> pb.bullets[order[i]]])

HasId(bs, id) == \E i \in DOMAIN bs : bs[i].id = id
\* Iterator::position(|b| b.id == id): the first index with that id
PositionOf(bs, id) == CHOOSE i \in DOMAIN bs : bs[i].id = id /\ \A j \in 1..(i - 1) : bs[j].id # id

\* Playbook::find_bullet: Some(first bullet with that id in iteration order) or None
find_bullet(pb, id, order) ==
    LET all == all_bullets(pb, order)
    IN  IF HasId(all, id) THEN Some(all[PositionOf(all, id)]) ELSE None

\* the first section, in iteration order, whose list holds the id
FirstSectionWith(pb, id, order) ==
    order[CHOOSE i \in DOMAIN order :
            /\ HasId(pb.bullets[order[i]], id)
            /\ \A j \in 1..(i - 1) : ~HasId(pb.bullets[order[j]], id)]

\* Playbook::update_bullet: [found, pb]; the bullet is replaced where the old
\* one sits, whatever section the new one names
update_bullet(pb, updated, order) ==
    IF \E s \in Sections : HasId(pb.bullets[s], updated.id)
    THEN LET s == FirstSectionWith(pb, updated.id, order)
             pos == PositionOf(pb.bullets[s], updated.id)
         IN  [found |-> TRUE,
              pb |-> [pb EXCEPT !.bullets[s][pos] = updated, !.version = @ + 1]]
    ELSE [found |-> FALSE, pb |-> pb]

\* a write through Playbook::find_bullet_mut: the first bullet with the id,
\* in iteration order, is replaced by b; nothing else changes
update_bullet_in_place(pb, b, order) ==
    LET s == FirstSectionWith(pb, b.id, order)
        pos == PositionOf(pb.bullets[s], b.id)
    IN  [pb EXCEPT !.bullets[s][pos] = b]

RECURSIVE update_bullets_abort_on_miss(_, _, _)
\* the update loop if a miss ended it
update_bullets_abort_on_miss(pb, us, order) ==
    IF us = <<>> THEN pb
    ELSE IF ~update_bullet(pb, Head(us), order).found THEN pb
    ELSE update_bullets_abort_on_miss(update_bullet(pb, Head(us), order).pb, Tail(us), order)

RECURSIVE update_bullets(_, _, _)
\* merge_delta's loop over delta.updated_bullets (a miss is only logged)
update_bullets(pb, us, order) ==
    IF us = <<>> THEN pb
    ELSE update_bullets(update_bullet(pb, Head(us), order).pb, Tail(us), order)

\* DeltaContext::is_empty
is_empty(delta) == delta.new_bullets = <<>> /\ delta.updated_bullets = <<>>


(***************************************************************************)
(* Bullet store (storage.rs)                                               *)
(***************************************************************************)
RECURSIVE InsertDesc(_, _)
\* x goes before the first element with a smaller key: equal keys keep
\* their order (slice::sort_by is stable)
InsertDesc(sorted, x) ==
    IF sorted = <<>> THEN <<x>>
    ELSE IF RLt(Head(sorted).k, x.k) THEN <<x>> \o sorted
    ELSE <<Head(sorted)>> \o InsertDesc(Tail(sorted), x)

RECURSIVE SortDesc(_, _)
\* sort_by(|a, b| b.k.partial_cmp(&a.k)) of the entries [k, v]
SortDesc(todo, sorted) ==
    IF todo = <<>> THEN sorted ELSE SortDesc(Tail(todo), InsertDesc(sorted, Head(todo)))

Take(s, n) == SubSeq(s, 1, Min2(n, Len(s)))

\* the playbook file: absent, malformed, or holding a serialized playbook
AbsentFile == [kind |-> "absent", pb |-> Playbook_new]
MalformedFile == [kind |-> "malformed", pb |-> Playbook_new]
\* BulletStorage::save_playbook: the file is overwritten with the playbook
save_playbook(pb) == [kind |-> "ok", pb |-> pb]

\* load_playbook if content that does not parse were read as an empty playbook
load_playbook_lenient(f) ==
    IF f.kind = "ok" THEN [ok |-> TRUE, pb |-> f.pb] ELSE [ok |-> TRUE, pb |-> Playbook_new]

\* BulletStorage::load_playbook: Ok(Playbook::new()) without a file, Err on
\* content that does not parse, else the stored playbook
load_playbook(f) ==
    IF f.kind = "absent" THEN [ok |-> TRUE, pb |-> Playbook_new]
    ELSE IF f.kind = "malformed" THEN [ok |-> FALSE, pb |-> Playbook_new]
    ELSE [ok |-> TRUE, pb |-> f.pb]

\* playbook_%Y%m%d_%H%M%S.json: the name has one-second resolution
ArchiveName(t) == t
\* fs::write to the archive directory: creates the file or overwrites it
WriteArchive(arch, name, pb) ==
    [n \in DOMAIN arch \cup {name} |-> IF n = name THEN pb ELSE arch[n]]

\* (max_bullets as f32 * 0.7) as usize
KeepCount(max_bullets) == (max_bullets * 7) \div 10

\* auto_archive without the sort: the first keep_count bullets in map order stay
auto_archive_unsorted(pb, arch, t, order, max_bullets) ==
    LET all == all_bullets(pb, order)
    IN  [archive |-> WriteArchive(arch, ArchiveName(t), pb),
         pb |-> add_bullets(Playbook_new, Take(all, KeepCount(max_bullets)))]

\* BulletStorage::auto_archive: snapshot to the archive, then rebuild the
\* playbook from the keep_count most recently updated bullets
auto_archive(pb, arch, t, order, max_bullets) ==
    LET all == all_bullets(pb, order)
        sorted == SortDesc([i \in DOMAIN all |-> [k |-> RInt(all[i].updated_at), v |-> all[i]]],
                           <<>>)
        kept == Take(sorted, KeepCount(max_bullets))
    IN  [archive |-> WriteArchive(arch, ArchiveName(t), pb),
         pb |-> add_bullets(Playbook_new, [i \in DOMAIN kept |-> kept[i].v])]

\* merge_delta after the emptiness check: load, add, update, archive when
\* over the limit, save
merge_delta_apply(f, arch, delta, t, order, max_bullets) ==
    LET loaded == load_playbook(f)
        added == add_bullets(loaded.pb, delta.new_bullets)
        updated == update_bullets(added, delta.updated_bullets, order)
        over == updated.total_bullets > max_bullets
        archived == auto_archive(updated, arch, t, order, max_bullets)
    IN  IF ~loaded.ok
        THEN [ok |-> FALSE, file |-> f, archive |-> arch, trimmed |-> FALSE]
        ELSE IF over
        THEN [ok |-> TRUE, file |-> save_playbook(archived.pb),
              archive |-> archived.archive, trimmed |-> TRUE]
        ELSE [ok |-> TRUE, file |-> save_playbook(updated),
              archive |-> arch, trimmed |-> FALSE]

\* merge_delta without the early return for an empty delta
merge_delta_no_early_return(f, arch, delta, t, order, max_bullets) ==
    merge_delta_apply(f, arch, delta, t, order, max_bullets)

\* BulletStorage::merge_delta: [ok, file, archive, trimmed]
merge_delta(f, arch, delta, t, order, max_bullets) ==
    IF is_empty(delta) THEN [ok |-> TRUE, file |-> f, archive |-> arch, trimmed |-> FALSE]
    ELSE merge_delta_apply(f, arch, delta, t, order, max_bullets)

\* BulletStorage::update_bullet (single): [ok, updated, file]
storage_update_bullet(f, b, order) ==
    LET loaded == load_playbook(f)
        r == update_bullet(loaded.pb, b, order)
    IN  IF ~loaded.ok THEN [ok |-> FALSE, updated |-> FALSE, file |-> f]
        ELSE IF r.found THEN [ok |-> TRUE, updated |-> TRUE, file |-> save_playbook(r.pb)]
        ELSE [ok |-> TRUE, updated |-> FALSE, file |-> f]

\* BulletStorage::clear and clear_without_archive: both save Playbook::new()
storage_clear(f) == save_playbook(Playbook_new)
clear_without_archive(f) == save_playbook(Playbook_new)

(***************************************************************************)
(* State                                                                   *)
(***************************************************************************)
VARIABLES
    file,       \* playbook.json
    archive,    \* the archive directory: file name -> snapshot
    now,        \* Utc::now(), in seconds
    last,       \* the last operation: its arguments, the state before it, its result
    steps,      \* number of operations so far (bounds the length of a run)
    tasks,      \* the asynchronous tasks in flight: task -> position and local data
    lock,       \* the RwLock around the shared store: its writer and its readers
    index,      \* the LightweightIndex: id map, section map, keyword map
    mission,    \* the MissionContext: its todos, and the Reflector runs per step
    optimizer   \* the BackgroundOptimizer: its call counter, the passes it spawned

vars == <<file, archive, now, last, steps, tasks, lock, index, mission, optimizer>>

\* LightweightIndex::new: no id, no section list, no keyword bucket, an empty
\* recency cache; each map is a function from its keys
LightweightIndex_new ==
    [by_id |-> <<>>, by_section |-> <<>>, keywords |-> <<>>, hot_cache |-> <<>>]

\* MissionContext::new: no todos; ids counts the ids handed out so far,
\* reflector the runs of the Reflector per step, marked the ids of the todos
\* marked as reflected
MissionContext_new == [todos |-> <<>>, ids |-> 0, reflector |-> <<>>, marked |-> {}]

\* the callers of record_call that may be in flight together
Callers == 1..MaxCalls

\* OptimizerConfig::default(): trigger_every_n_calls: 100
OptimizerConfig_trigger_default == 100

\* BackgroundOptimizer::new(storage, config): the counter at 0; spawned lists
\* the counts for which record_call spawned a pass, calls holds each
\* caller's position in record_call and the count it was handed
BackgroundOptimizer_new(every) ==
    [trigger_every_n_calls |-> every, call_count |-> 0, spawned |-> <<>>,
     calls |-> [c \in Callers |-> [pc |-> "idle"]]]

\* the tasks that may run side by side: the maintainer's timer loop and its
\* call-count trigger, a usage record, a merge, a second learning task and
\* a query
Tasks == {"timer", "trigger", "usage", "merge", "learn", "query"}
IdleTask == [pc |-> "idle"]
FreeLock == [writer |-> "none", readers |-> {}]

NoArchive == <<>>

\* one more operation of the run, made as a whole while no task is in flight
Step ==
    /\ steps < MaxSteps
    /\ steps' = steps + 1
    /\ \A p \in Tasks : tasks[p].pc = "idle"
    /\ UNCHANGED <<tasks, lock, index, mission, optimizer>>

\* the clock advances by d days
Tick(d) ==
    /\ Step
    /\ now + d * SecsPerDay <= MaxDays * SecsPerDay
    /\ now' = now + d * SecsPerDay
    /\ last' = [op |-> "tick", ok |-> TRUE]
    /\ UNCHANGED <<file, archive>>

\* the file is damaged outside the program (a torn or hand-edited file)
Corrupt ==
    /\ Step
    /\ file.kind = "ok"
    /\ file' = MalformedFile
    /\ last' = [op |-> "corrupt", ok |-> TRUE]
    /\ UNCHANGED <<archive, now>>

\* a call of load_playbook
LoadPlaybook ==
    /\ Step
    /\ last' = [op |-> "load_playbook", ok |-> load_playbook(file).ok,
                pre |-> file, out |-> load_playbook(file).pb]
    /\ UNCHANGED <<file, archive, now>>

\* a call of merge_delta(delta); order is the iteration order of the loaded map
MergeDelta(delta, order) ==
    LET r == merge_delta(file, archive, delta, now, order, MaxBullets)
    IN  /\ Step
        /\ file' = r.file
        /\ archive' = r.archive
        /\ last' = [op |-> "merge_delta", ok |-> r.ok, pre |-> file, preArchive |-> archive,
                    delta |-> delta, trimmed |-> r.trimmed]
        /\ UNCHANGED now

\* a call of BulletStorage::update_bullet(b)
UpdateBullet(b, order) ==
    LET r == storage_update_bullet(file, b, order)
    IN  /\ Step
        /\ file' = r.file
        /\ last' = [op |-> "update_bullet", ok |-> r.ok, pre |-> file, bullet |-> b,
                    updated |-> r.updated]
        /\ UNCHANGED <<archive, now>>

\* a call of BulletStorage::clear
Clear ==
    /\ Step
    /\ file' = storage_clear(file)
    /\ last' = [op |-> "clear", ok |-> TRUE, pre |-> file, preArchive |-> archive]
    /\ UNCHANGED <<archive, now>>

\* a call of BulletStorage::clear_without_archive
ClearWithoutArchive ==
    /\ Step
    /\ file' = clear_without_archive(file)
    /\ last' = [op |-> "clear_without_archive", ok |-> TRUE, pre |-> file,
                preArchive |-> archive]
    /\ UNCHANGED <<archive, now>>

\* the state after BulletStorage::new on a fresh directory
Init ==
    /\ file = AbsentFile
    /\ archive = NoArchive
    /\ now = 0
    /\ last = [op |-> "init", ok |-> TRUE]
    /\ steps = 0
    /\ tasks = [p \in Tasks |-> IdleTask]
    /\ lock = FreeLock
    /\ index = LightweightIndex_new
    /\ mission = MissionContext_new
    /\ optimizer = BackgroundOptimizer_new(OptimizerConfig_trigger_default)

(***************************************************************************)
(* Ingest specification: merge_delta with new bullets, the clock, damage   *)
(***************************************************************************)
TextAB == <<"a", "b">>
TextCD == <<"c", "d">>
TextUpdated == <<"u", "p">>

\* ids a caller uses for new bullets, and an id that is never stored
StoreIds == {"b1", "b2"}
UnknownId == "zz"
StoreContent(id) == IF id = "b1" THEN TextAB ELSE TextCD

\* the bullets a delta may add at time t
StoreNewBullets(t) ==
    {Bullet_new(id, s, StoreContent(id), t) : id \in StoreIds, s \in Sections}

\* deltas without updates: no, one or two new bullets
NewOnlyDeltas(t) ==
    {[new_bullets |-> n, updated_bullets |-> <<>>] :
        n \in {<<>>} \cup {<<x>> : x \in StoreNewBullets(t)}
              \cup {<<x, y>> : x \in {b \in StoreNewBullets(t) : b.id = "b1"},
                               y \in StoreNewBullets(t)}}

Next ==
    \/ \E d \in NewOnlyDeltas(now), o \in SectionOrders : MergeDelta(d, o)
    \/ Tick(StaleDays + 1)
    \/ Corrupt

Spec == Init /\ [][Next]_vars

(***************************************************************************)
(* Claims checked under Spec                                               *)
(***************************************************************************)
\* the playbook the last operation loaded
PrePb == load_playbook(last.pre).pb
LastNew == last.delta.new_bullets
CountIn(bs, s) == Cardinality({i \in DOMAIN bs : bs[i].section = s})

\* C1: whenever a merge_delta brings total_bullets above max_bullets, the
\* persisted playbook has KeepCount <= total_bullets <= max_bullets and exactly
\* one new archive file exists, holding the full pre-trim snapshot.
C1_TrimLeavesOneNewArchive ==
    (last.op = "merge_delta" /\ last.ok
        /\ PrePb.total_bullets + Len(LastNew) > MaxBullets)
    => /\ file.kind = "ok"
       /\ file.pb.total_bullets <= MaxBullets
       /\ file.pb.total_bullets >= KeepCount(MaxBullets)
       /\ \E name \in DOMAIN archive \ DOMAIN last.preArchive :
            /\ DOMAIN archive \ DOMAIN last.preArchive = {name}
            /\ archive[name].total_bullets = PrePb.total_bullets + Len(LastNew)
            /\ \A s \in Sections :
                 archive[name].bullets[s]
                   = PrePb.bullets[s] \o FilterSeq(LastNew, {b \in SeqToSet(LastNew) : b.section = s})

\* C2: a delta of k >= 1 new bullets, all in one section s, without updates,
\* whose total stays within max_bullets, makes merge_delta raise the persisted
\* total_bullets by k and section_counts[s] by k; other counts stay.
C2_MergeAddsKToTotalAndSection ==
    (last.op = "merge_delta" /\ last.pre.kind # "malformed"
        /\ last.delta.updated_bullets = <<>> /\ Len(LastNew) >= 1
        /\ (\A i \in DOMAIN LastNew : LastNew[i].section = LastNew[1].section)
        /\ PrePb.total_bullets + Len(LastNew) <= MaxBullets)
    => /\ last.ok
       /\ file.kind = "ok"
       /\ file.pb.total_bullets = PrePb.total_bullets + Len(LastNew)
       /\ \A s \in Sections :
            file.pb.section_counts[s]
              = PrePb.section_counts[s] + (IF s = LastNew[1].section THEN Len(LastNew) ELSE 0)

\* a merge of two new bullets of one section into a playbook that holds one
C2_Witness ==
    /\ last.op = "merge_delta" /\ last.ok
    /\ last.delta.updated_bullets = <<>> /\ Len(LastNew) = 2
    /\ LastNew[1].section = LastNew[2].section
    /\ PrePb.total_bullets = 1
    /\ file.pb.total_bullets = 3

\* C3: merge_delta with an empty delta succeeds and changes nothing: the
\* playbook file (version, bullets, counts) and the archive are as before.
C3_EmptyDeltaIsNoOp ==
    (last.op = "merge_delta" /\ is_empty(last.delta))
    => /\ last.ok
       /\ file = last.pre
       /\ archive = last.preArchive

\* an empty delta merged into a store that holds bullets and an archive file
C3_Witness ==
    /\ last.op = "merge_delta" /\ is_empty(last.delta)
    /\ file.kind = "ok" /\ file.pb.total_bullets >= 1
    /\ DOMAIN archive # {}

\* the bullets a trimming merge had in memory before the trim, and those it kept
PreTrimBullets == all_bullets(PrePb, CHOOSE o \in SectionOrders : TRUE) \o LastNew
KeptBullets == all_bullets(file.pb, CHOOSE o \in SectionOrders : TRUE)
Occurrences(bs, b) == Cardinality({i \in DOMAIN bs : bs[i] = b})
StampCount(bs, t) == Cardinality({i \in DOMAIN bs : bs[i].updated_at = t})

\* C23: after archive-and-trim exactly min(n, KeepCount) of the n bullets
\* remain, each of them one of the n, and no dropped bullet was updated later
\* than a retained one, whatever their sections.
C23_TrimKeepsMostRecentlyUpdated ==
    (last.op = "merge_delta" /\ last.ok /\ last.trimmed)
    => /\ Len(KeptBullets) = Min2(Len(PreTrimBullets), KeepCount(MaxBullets))
       /\ file.pb.total_bullets = Len(KeptBullets)
       /\ \A i \in DOMAIN KeptBullets :
            Occurrences(KeptBullets, KeptBullets[i]) <= Occurrences(PreTrimBullets, KeptBullets[i])
       /\ \A i \in DOMAIN PreTrimBullets : \A j \in DOMAIN KeptBullets :
            LET t == PreTrimBullets[i].updated_at
            IN  StampCount(KeptBullets, t) < StampCount(PreTrimBullets, t)
                => t <= KeptBullets[j].updated_at

\* a trim that dropped a bullet older than the ones it kept, with bullets of
\* both sections in memory
C23_Witness ==
    /\ last.op = "merge_delta" /\ last.ok /\ last.trimmed
    /\ \E i \in DOMAIN PreTrimBullets : \A j \in DOMAIN KeptBullets :
         PreTrimBullets[i].updated_at < KeptBullets[j].updated_at
    /\ \E i \in DOMAIN PreTrimBullets : \E j \in DOMAIN PreTrimBullets :
         PreTrimBullets[i].section # PreTrimBullets[j].section

\* the bullets held by the files of the archive directory
ArchivedBullets ==
    UNION {SeqToSet(all_bullets(archive[n], CHOOSE o \in SectionOrders : TRUE)) :
               n \in DOMAIN archive}

\* C33: every bullet a trim had in memory is in a file of the archive
\* directory right after the trim, and a bullet held by the archive
\* directory is still held by it after every later operation.
C33_DroppedBulletsStayArchived ==
    [][/\ ArchivedBullets \subseteq ArchivedBullets'
       /\ (last'.op = "merge_delta" /\ last'.ok /\ last'.trimmed)
          => SeqToSet(PreTrimBullets') \subseteq ArchivedBullets']_vars

(***************************************************************************)
(* Update specification: deltas with updated bullets, known and unknown    *)
(***************************************************************************)
\* the replacement bullets a caller may pass: a stored bullet with new
\* content and one more recorded success (test_storage_update_bullet), or a
\* bullet whose id is not stored
KnownUpdates(pb, t) ==
    {record_success([b EXCEPT !.content = TextUpdated], t) :
        b \in SeqToSet(all_bullets(pb, CHOOSE o \in SectionOrders : TRUE))}
UnknownUpdate(t) == Bullet_new(UnknownId, "General", TextUpdated, t)

\* the bullets a delta of this specification may add
SeedBullets(t) ==
    {Bullet_new("b1", "General", TextAB, t), Bullet_new("b2", "ToolUsageTips", TextCD, t)}

\* at most one new bullet, and no update, one update, or a known and an
\* unknown update in either order
UpdateDeltas(f, t) ==
    {[new_bullets |-> n, updated_bullets |-> u] :
        n \in {<<>>} \cup {<<x>> : x \in SeedBullets(t)},
        u \in {<<>>, <<UnknownUpdate(t)>>}
              \cup {<<k>> : k \in KnownUpdates(load_playbook(f).pb, t)}
              \cup {<<UnknownUpdate(t), k>> : k \in KnownUpdates(load_playbook(f).pb, t)}
              \cup {<<k, UnknownUpdate(t)>> : k \in KnownUpdates(load_playbook(f).pb, t)}}

MergeUpdates == \E d \in UpdateDeltas(file, now), o \in SectionOrders : MergeDelta(d, o)
PointUpdate ==
    \E b \in KnownUpdates(load_playbook(file).pb, now) \cup {UnknownUpdate(now)},
       o \in SectionOrders : UpdateBullet(b, o)

NextUpdate ==
    \/ MergeUpdates
    \/ PointUpdate
    \/ Tick(StaleDays + 1)

SpecUpdate == Init /\ [][NextUpdate]_vars

(***************************************************************************)
(* Claims checked under SpecUpdate                                         *)
(***************************************************************************)
LastUpdated == last.delta.updated_bullets
\* the playbook after the delta's new bullets were added
PreAdded == add_bullets(PrePb, LastNew)
\* the updates of the delta whose id the playbook holds
KnownOnly(us) ==
    FilterSeq(us, {u \in SeqToSet(us) : \E s \in Sections : HasId(PreAdded.bullets[s], u.id)})
\* the playbook the merge produced: the archived snapshot when it trimmed
Merged == IF last.trimmed THEN archive[ArchiveName(now)] ELSE file.pb

\* C10: a merge_delta whose delta updates an id the playbook does not hold
\* returns success, and persists what loading, adding and updating with the
\* same delta without that update persists: every new bullet is added and every update of a known id applied.
C10_UnknownUpdateDoesNotFailMerge ==
    (last.op = "merge_delta" /\ last.pre.kind # "malformed"
        /\ KnownOnly(LastUpdated) # LastUpdated)
    => /\ last.ok
       /\ file.kind = "ok"
       /\ Merged.total_bullets = PrePb.total_bullets + Len(LastNew)
       /\ \A i \in DOMAIN LastNew :
            \/ \E j \in DOMAIN Merged.bullets[LastNew[i].section] :
                 Merged.bullets[LastNew[i].section][j] = LastNew[i]
            \/ HasId(LastUpdated, LastNew[i].id)
       /\ \A i \in DOMAIN LastUpdated :
            (\E s \in Sections : HasId(PreAdded.bullets[s], LastUpdated[i].id))
            => \E s \in Sections : \E j \in DOMAIN Merged.bullets[s] :
                 Merged.bullets[s][j] = LastUpdated[i]
       /\ \E o \in SectionOrders :
            file = merge_delta_apply(last.pre, last.preArchive,
                               [new_bullets |-> LastNew,
                                updated_bullets |-> KnownOnly(LastUpdated)],
                               now, o, MaxBullets).file

\* a delta with a new bullet, an update of an unknown id and then an update
\* of a stored bullet: the new bullet and the known update are both persisted
C10_Witness ==
    /\ last.op = "merge_delta" /\ last.ok /\ ~last.trimmed
    /\ Len(LastNew) = 1 /\ Len(LastUpdated) = 2
    /\ LastUpdated[1].id = UnknownId
    /\ LastUpdated[2].id # LastNew[1].id
    /\ \E j \in DOMAIN file.pb.bullets[LastNew[1].section] :
         file.pb.bullets[LastNew[1].section][j] = LastNew[1]
    /\ \E s \in Sections : \E j \in DOMAIN file.pb.bullets[s] :
         file.pb.bullets[s][j] = LastUpdated[2]

(***************************************************************************)
(* Usage tracker and background maintainer                                 *)
(***************************************************************************)
\* chrono::Duration::num_days of the time from t0 to t1: whole days
num_days(t0, t1) == (t1 - t0) \div SecsPerDay

\* BulletMetadata::record_recall: one more recall at time t, counted as a
\* success or a failure, and the stored success_rate recomputed
record_recall(b, success, t) ==
    LET sc == b.success_count + (IF success THEN 1 ELSE 0)
        fc == b.failure_count + (IF success THEN 0 ELSE 1)
    IN  [b EXCEPT !.recall_count = @ + 1,
                  !.last_recall = Some(t),
                  !.success_count = sc,
                  !.failure_count = fc,
                  !.success_rate = Rat(sc, sc + fc)]

\* the recency term of the dynamic weight: 1 within a week of the last
\* recall, 1/2 within StaleDays, 0 after that or without a recall
recency_bonus(b, t) ==
    IF b.last_recall = None THEN RInt(0)
    ELSE IF num_days(b.last_recall[1], t) < ProtectDays THEN RInt(1)
    ELSE IF num_days(b.last_recall[1], t) <= StaleDays THEN Rat(1, 2)
    ELSE RInt(0)

\* BulletMetadata::calculate_dynamic_weight at time t: importance, recalls
\* (saturating at 10), the stored success rate and recency, within [0, 5]
calculate_dynamic_weight(b, t) ==
    RAdd(RAdd(b.importance, Rat(Min2(b.recall_count, 10), 10)),
         RAdd(RMul(RInt(2), b.success_rate), recency_bonus(b, t)))

\* Vec::remove(pos)
RemoveAt(s, pos) == SubSeq(s, 1, pos - 1) \o SubSeq(s, pos + 1, Len(s))

\* Playbook::remove_bullet: the first bullet with the id, in the map's
\* iteration order, leaves its section; nothing happens without one
remove_bullet(pb, id, order) ==
    IF \E s \in Sections : HasId(pb.bullets[s], id)
    THEN LET s == FirstSectionWith(pb, id, order)
             pos == PositionOf(pb.bullets[s], id)
         IN  [pb EXCEPT !.bullets[s] = RemoveAt(@, pos),
                        !.total_bullets = @ - 1,
                        !.section_counts[s] = @ - 1,
                        !.version = @ + 1]
    ELSE pb

RECURSIVE remove_bullets(_, _, _)
\* for id in &to_remove { playbook.remove_bullet(id) }
remove_bullets(pb, ids, order) ==
    IF ids = <<>> THEN pb
    ELSE remove_bullets(remove_bullet(pb, Head(ids), order), Tail(ids), order)

RECURSIVE SetToSeq(_)
\* the elements of a HashSet in one iteration order
SetToSeq(S) ==
    IF S = {} THEN <<>>
    ELSE LET x == CHOOSE x \in S : TRUE IN <<x>> \o SetToSeq(S \ {x})

RECURSIVE record_usages_abort_on_miss(_, _, _, _, _)
\* the usage loop if an id without a bullet ended it
record_usages_abort_on_miss(pb, ids, success, t, order) ==
    IF ids = <<>> THEN pb
    ELSE IF find_bullet(pb, Head(ids), order) = None THEN pb
    ELSE record_usages_abort_on_miss(
             update_bullet_in_place(pb, record_recall(find_bullet(pb, Head(ids), order)[1],
                                                      success, t), order),
             Tail(ids), success, t, order)

RECURSIVE record_usages(_, _, _, _, _)
\* record_bullet_usage's loop over bullet_ids: find_bullet_mut, then
\* record_recall; an id without a bullet is only logged
record_usages(pb, ids, success, t, order) ==
    IF ids = <<>> THEN pb
    ELSE LET id == Head(ids)
             found == find_bullet(pb, id, order)
             next == IF found = None THEN pb
                     ELSE update_bullet_in_place(pb, record_recall(found[1], success, t), order)
         IN  record_usages(next, Tail(ids), success, t, order)

\* RecallTracker::record_bullet_usage: [ok, file]
record_bullet_usage(f, ids, success, t, order) ==
    LET loaded == load_playbook(f)
    IN  IF ~loaded.ok THEN [ok |-> FALSE, file |-> f]
        ELSE [ok |-> TRUE,
              file |-> save_playbook(record_usages(loaded.pb, ids, success, t, order))]

\* let similarity_threshold = 0.85
similarity_threshold == Rat(85, 100)

\* the pair (to_keep, to_delete) of a similar pair: i stays unless j weighs more
dedup_loser(bi, bj, t) ==
    IF RGe(calculate_dynamic_weight(bi, t), calculate_dynamic_weight(bj, t)) THEN bj ELSE bi

RECURSIVE dedup_inner(_, _, _, _, _, _)
\* for j in (i + 1)..all_bullets.len(): a marked j is skipped; i is not
\* looked at again once the inner loop runs
dedup_inner(all, norm, i, j, to_remove, t) ==
    IF j > Len(all) THEN to_remove
    ELSE IF all[j].id \in to_remove THEN dedup_inner(all, norm, i, j + 1, to_remove, t)
    ELSE IF RGe(combined_similarity(norm[i], norm[j]), similarity_threshold)
    THEN dedup_inner(all, norm, i, j + 1,
                     to_remove \cup {dedup_loser(all[i], all[j], t).id}, t)
    ELSE dedup_inner(all, norm, i, j + 1, to_remove, t)

RECURSIVE dedup_outer(_, _, _, _, _)
\* for i in 0..all_bullets.len(): an i marked before its turn is skipped
dedup_outer(all, norm, i, to_remove, t) ==
    IF i > Len(all) THEN to_remove
    ELSE IF all[i].id \in to_remove THEN dedup_outer(all, norm, i + 1, to_remove, t)
    ELSE dedup_outer(all, norm, i + 1, dedup_inner(all, norm, i, i + 1, to_remove, t), t)

\* BackgroundOptimizer::deduplicate_similar: [ok, file, removed]
deduplicate_similar(f, t, order) ==
    LET loaded == load_playbook(f)
        all == all_bullets(loaded.pb, order)
        norm == [i \in DOMAIN all |-> normalize_text(all[i].content, TRUE)]
        to_remove == dedup_outer(all, norm, 1, {}, t)
    IN  IF ~loaded.ok THEN [ok |-> FALSE, file |-> f, removed |-> 0]
        ELSE IF all = <<>> \/ to_remove = {} THEN [ok |-> TRUE, file |-> f, removed |-> 0]
        ELSE [ok |-> TRUE,
              file |-> save_playbook(remove_bullets(loaded.pb, SetToSeq(to_remove), order)),
              removed |-> Cardinality(to_remove)]

\* BackgroundOptimizer::recalculate_weights: loads and logs, writes nothing
recalculate_weights(f) == [ok |-> load_playbook(f).ok]

\* BackgroundOptimizer::should_remove at time t
should_remove(b, t) ==
    IF b.last_recall # None /\ num_days(b.last_recall[1], t) < ProtectDays THEN FALSE
    ELSE IF b.recall_count = 0 /\ num_days(b.created_at, t) > StaleDays THEN TRUE
    ELSE IF b.recall_count > MinRecalls /\ RLt(b.success_rate, Rat(2, 10)) THEN TRUE
    ELSE IF ByteLen(b.content) < MinContentLen /\ RLt(b.importance, Rat(3, 10)) THEN TRUE
    ELSE FALSE

\* a cleanup phase that also stamps the bullets it keeps with the time of the pass
cleanup_low_value_touching(f, t, order) ==
    LET loaded == load_playbook(f)
        all == all_bullets(loaded.pb, order)
        marked == FilterSeq(all, {b \in SeqToSet(all) : should_remove(b, t)})
        to_remove == [i \in DOMAIN marked |-> marked[i].id]
        left == remove_bullets(loaded.pb, to_remove, order)
    IN  IF ~loaded.ok THEN [ok |-> FALSE, file |-> f, removed |-> 0]
        ELSE IF to_remove = <<>> THEN [ok |-> TRUE, file |-> f, removed |-> 0]
        ELSE [ok |-> TRUE,
              file |-> save_playbook([left EXCEPT !.bullets =
                          [s \in Sections |-> [i \in DOMAIN left.bullets[s] |->
                              [left.bullets[s][i] EXCEPT !.updated_at = t + 1]]]]),
              removed |-> Len(to_remove)]

\* BackgroundOptimizer::cleanup_low_value: [ok, file, removed]
cleanup_low_value(f, t, order) ==
    LET loaded == load_playbook(f)
        all == all_bullets(loaded.pb, order)
        marked == FilterSeq(all, {b \in SeqToSet(all) : should_remove(b, t)})
        to_remove == [i \in DOMAIN marked |-> marked[i].id]
    IN  IF ~loaded.ok THEN [ok |-> FALSE, file |-> f, removed |-> 0]
        ELSE IF to_remove = <<>> THEN [ok |-> TRUE, file |-> f, removed |-> 0]
        ELSE [ok |-> TRUE,
              file |-> save_playbook(remove_bullets(loaded.pb, to_remove, order)),
              removed |-> Len(to_remove)]

\* OptimizerConfig::default(): both phases enabled
OptimizerConfig_default == [dedup_enabled |-> TRUE, cleanup_enabled |-> TRUE]

\* BackgroundOptimizer::optimize: dedup, weights, cleanup, each with its own
\* load (orders o1, o2) and a `?` that ends the pass on an error;
\* [ok, file, deduped]: deduped is the file the dedup phase left
optimize(f, t, config, o1, o2) ==
    LET d == IF config.dedup_enabled THEN deduplicate_similar(f, t, o1)
             ELSE [ok |-> TRUE, file |-> f, removed |-> 0]
        w == recalculate_weights(d.file)
        c == IF config.cleanup_enabled THEN cleanup_low_value(d.file, t, o2)
             ELSE [ok |-> TRUE, file |-> d.file, removed |-> 0]
    IN  IF ~d.ok THEN [ok |-> FALSE, file |-> f, deduped |-> f]
        ELSE IF ~w.ok THEN [ok |-> FALSE, file |-> d.file, deduped |-> d.file]
        ELSE [ok |-> c.ok, file |-> c.file, deduped |-> d.file]

\* a call of RecallTracker::record_bullet_usage(ids, context, success)
RecordBulletUsage(ids, success, order) ==
    LET r == record_bullet_usage(file, ids, success, now, order)
    IN  /\ Step
        /\ file' = r.file
        /\ last' = [op |-> "record_bullet_usage", ok |-> r.ok, pre |-> file,
                    ids |-> ids, success |-> success]
        /\ UNCHANGED <<archive, now>>

\* one maintenance pass: BackgroundOptimizer::optimize under a configuration
Optimize(config, o1, o2) ==
    LET r == optimize(file, now, config, o1, o2)
    IN  /\ Step
        /\ file' = r.file
        /\ last' = [op |-> "optimize", ok |-> r.ok, pre |-> file, deduped |-> r.deduped,
                    order |-> o1, config |-> config]
        /\ UNCHANGED <<archive, now>>

(***************************************************************************)
(* Maintenance specification: ingest, usage records, passes, the clock     *)
(***************************************************************************)
Text8 == <<"a", "b", "c", "d", "e", "f", "g", "h">>
Text7 == SubSeq(Text8, 1, 7)
Text9 == Text8 \o <<"i">>
Text8Punct == <<"A", "b", "c", "d", "e", "f", "g", "h", "!">>
TextXYZ == <<"x", "y", "z">>
TextUVW == <<"u", "v", "w">>

\* a bullet built field by field, as the integration tests build theirs
BulletWith(id, section, content, t, importance, last_recall) ==
    [Bullet_new(id, section, content, t) EXCEPT
        !.importance = importance, !.last_recall = last_recall]

\* the bullets a delta of this specification may add at time t: three near
\* duplicates of different importance, a fourth that differs by case and
\* punctuation only, and two short low-importance bullets under one id, one
\* of them recalled at t
MaintBullets(t) ==
    {BulletWith("b1", "General", Text8, t, Rat(5, 10), None),
     BulletWith("b2", "General", Text7, t, Rat(8, 10), None),
     BulletWith("b3", "General", Text9, t, Rat(3, 10), None),
     BulletWith("b4", "ToolUsageTips", Text8Punct, t, Rat(5, 10), None),
     BulletWith("b5", "General", TextXYZ, t, Rat(2, 10), Some(t)),
     BulletWith("b5", "General", TextUVW, t, Rat(2, 10), None)}

StoredIds(f) == {b.id : b \in SeqToSet(all_bullets(load_playbook(f).pb,
                                                   CHOOSE o \in SectionOrders : TRUE))}
\* the id lists of a usage record: one stored id, the same id twice, or an
\* unknown id before a stored one
UsageIds(f) ==
    {<<id>> : id \in StoredIds(f)} \cup {<<id, id>> : id \in StoredIds(f)}
        \cup {<<UnknownId, id>> : id \in StoredIds(f)}

MergeMaint ==
    \E b \in MaintBullets(now), o \in SectionOrders :
        MergeDelta([new_bullets |-> <<b>>, updated_bullets |-> <<>>], o)
RecordUsage ==
    \E ids \in UsageIds(file), success \in BOOLEAN, o \in SectionOrders :
        RecordBulletUsage(ids, success, o)
MaintenancePass ==
    \E o1 \in SectionOrders, o2 \in SectionOrders : Optimize(OptimizerConfig_default, o1, o2)

NextMaint ==
    \/ MergeMaint
    \/ RecordUsage
    \/ MaintenancePass
    \/ Tick(1)
    \/ Tick(ProtectDays - 1)
    \/ Tick(StaleDays + 1)
    \/ Corrupt

SpecMaint == Init /\ [][NextMaint]_vars

(***************************************************************************)
(* Claims checked under SpecMaint                                          *)
(***************************************************************************)
\* the bullets the last pass loaded, in the order its dedup phase met them
PassBullets == all_bullets(PrePb, last.order)
Normalized(b) == normalize_text(b.content, TRUE)
Holds(pb, b) == \E s \in Sections : \E i \in DOMAIN pb.bullets[s] : pb.bullets[s][i] = b

\* C4: after a maintenance pass, of any two bullets (of different ids) whose
\* normalized contents have combined similarity >= 0.85 exactly one remains:
\* the one of higher dynamic weight, the first-encountered one on a tie.
C4_ExactlyTheHeavierOfTwoRemains ==
    (last.op = "optimize" /\ last.ok)
    => \A i \in DOMAIN PassBullets : \A j \in DOMAIN PassBullets :
         (/\ i < j
          /\ PassBullets[i].id # PassBullets[j].id
          /\ RGe(combined_similarity(Normalized(PassBullets[i]), Normalized(PassBullets[j])),
                 similarity_threshold))
         => LET heavier_j == RLt(calculate_dynamic_weight(PassBullets[i], now),
                                 calculate_dynamic_weight(PassBullets[j], now))
                winner == IF heavier_j THEN PassBullets[j] ELSE PassBullets[i]
                loser == IF heavier_j THEN PassBullets[i] ELSE PassBullets[j]
            IN  Holds(file.pb, winner) /\ ~Holds(file.pb, loser)

\* C5: a bullet that the cleanup phase of a pass loads with a last_recall
\* less than 7 days old is still in the playbook when the pass is over.
C5_RecentlyRecalledIsKept ==
    (last.op = "optimize" /\ last.ok)
    => \A s \in Sections : \A i \in DOMAIN last.deduped.pb.bullets[s] :
         LET b == last.deduped.pb.bullets[s][i]
         IN  (b.last_recall # None /\ now - b.last_recall[1] < ProtectDays * SecsPerDay)
             => Holds(file.pb, b)

\* the stored bullet a usage record looks up for an id
Found(pb, id) == find_bullet(pb, id, CHOOSE o \in SectionOrders : TRUE)

\* C6: a record_bullet_usage call, for every id it names that the playbook
\* holds, raises recall_count by exactly 1, raises success_count (success)
\* or failure_count (failure) by 1, sets last_recall to the current time and
\* leaves success_rate = success_count / (success_count + failure_count).
C6_UsageCountsOncePerCall ==
    (last.op = "record_bullet_usage" /\ last.pre.kind # "malformed")
    => /\ last.ok
       /\ \A id \in SeqToSet(last.ids) :
            Found(PrePb, id) # None
            => LET old == Found(PrePb, id)[1]
                   new == Found(file.pb, id)[1]
               IN  /\ new.recall_count = old.recall_count + 1
                   /\ new.success_count = old.success_count + (IF last.success THEN 1 ELSE 0)
                   /\ new.failure_count = old.failure_count + (IF last.success THEN 0 ELSE 1)
                   /\ new.last_recall = Some(now)
                   /\ new.success_rate = Rat(new.success_count,
                                             new.success_count + new.failure_count)

\* C11: a record_bullet_usage call that names an id the playbook does not
\* hold returns success; every named id the playbook holds has its recall
\* recorded, no bullet is created, and every bullet whose id the call does
\* not name is as before.
C11_UnknownUsageIdIsSkipped ==
    (last.op = "record_bullet_usage" /\ last.pre.kind # "malformed"
        /\ \E i \in DOMAIN last.ids : Found(PrePb, last.ids[i]) = None)
    => /\ last.ok
       /\ file.kind = "ok"
       /\ file.pb.total_bullets = PrePb.total_bullets
       /\ \A s \in Sections :
            /\ Len(file.pb.bullets[s]) = Len(PrePb.bullets[s])
            /\ \A i \in DOMAIN PrePb.bullets[s] :
                 /\ file.pb.bullets[s][i].id = PrePb.bullets[s][i].id
                 /\ PrePb.bullets[s][i].id \notin SeqToSet(last.ids)
                    => file.pb.bullets[s][i] = PrePb.bullets[s][i]
       /\ \A id \in SeqToSet(last.ids) :
            Found(PrePb, id) # None
            => /\ Found(file.pb, id)[1].recall_count > Found(PrePb, id)[1].recall_count
               /\ Found(file.pb, id)[1].last_recall = Some(now)
               /\ Found(file.pb, id)[1].success_count + Found(file.pb, id)[1].failure_count
                    > Found(PrePb, id)[1].success_count + Found(PrePb, id)[1].failure_count

\* a usage record naming an unknown id and then a stored one, over a store
\* that also holds a bullet the call does not name
C11_Witness ==
    /\ last.op = "record_bullet_usage" /\ last.ok
    /\ Len(last.ids) = 2 /\ last.ids[1] = UnknownId
    /\ Found(PrePb, last.ids[2]) # None
    /\ Found(file.pb, last.ids[2])[1].recall_count = Found(PrePb, last.ids[2])[1].recall_count + 1
    /\ \E s \in Sections : \E i \in DOMAIN file.pb.bullets[s] :
         file.pb.bullets[s][i].id \notin SeqToSet(last.ids)

RECURSIVE IsSubsequence(_, _)
\* xs is ys with some elements left out
IsSubsequence(xs, ys) ==
    IF xs = <<>> THEN TRUE
    ELSE IF ys = <<>> THEN FALSE
    ELSE IF Head(xs) = Head(ys) THEN IsSubsequence(Tail(xs), Tail(ys))
    ELSE IsSubsequence(xs, Tail(ys))

\* C21: a maintenance pass only removes bullets: in every section the bullets
\* after the pass are, unchanged in every field, bullets the pass loaded, with
\* some left out; what the eviction phase loads after the weights phase is
\* what the dedup phase left; a failed pass leaves the file as it was.
C21_PassOnlyRemoves ==
    (last.op = "optimize" /\ last.pre.kind # "malformed")
    => /\ last.ok
       /\ \A s \in Sections :
            /\ IsSubsequence(last.deduped.pb.bullets[s], PrePb.bullets[s])
            /\ IsSubsequence(load_playbook(file).pb.bullets[s], last.deduped.pb.bullets[s])
       /\ load_playbook(file).pb.total_bullets <= PrePb.total_bullets

\* a pass that removed a bullet and kept another
C21_Witness ==
    /\ last.op = "optimize" /\ last.ok /\ last.pre.kind = "ok"
    /\ file.pb.total_bullets < last.pre.pb.total_bullets
    /\ file.pb.total_bullets > 0

\* the eviction rule as the claim words it, at time t
EvictionRule(b, t) ==
    /\ ~(b.last_recall # None /\ t - b.last_recall[1] < ProtectDays * SecsPerDay)
    /\ \/ b.recall_count = 0 /\ t - b.created_at > StaleDays * SecsPerDay
       \/ b.recall_count > MinRecalls /\ RLt(b.success_rate, Rat(2, 10))
       \/ ByteLen(b.content) < MinContentLen /\ RLt(b.importance, Rat(3, 10))

\* C22: of the bullets the eviction phase of a pass loads, exactly those the
\* eviction rule names are gone after the pass: not recalled within 7 days
\* and (never recalled and older than 30 days, or recalled more than 5 times
\* with success_rate < 0.2, or shorter than 30 with importance < 0.3).
C22_EvictedExactlyByRule ==
    (last.op = "optimize" /\ last.ok)
    => \A s \in Sections : \A i \in DOMAIN last.deduped.pb.bullets[s] :
         LET b == last.deduped.pb.bullets[s][i]
         IN  Holds(file.pb, b) <=> ~EvictionRule(b, now)

\* the bullets the dedup phase of the last pass removed and those it kept
NearDuplicates(a, b) ==
    \/ RGe(combined_similarity(Normalized(a), Normalized(b)), similarity_threshold)
    \/ RGe(combined_similarity(Normalized(b), Normalized(a)), similarity_threshold)
DedupKept(b) == Holds(last.deduped.pb, b)

\* C34: every bullet the dedup phase removed has a near-duplicate (combined
\* similarity of the normalized contents >= 0.85) among the bullets the
\* same phase kept.
C34_RemovedHasSurvivingDuplicate ==
    (last.op = "optimize" /\ last.ok)
    => \A i \in DOMAIN PassBullets :
         ~DedupKept(PassBullets[i])
         => \E j \in DOMAIN PassBullets :
                /\ DedupKept(PassBullets[j])
                /\ NearDuplicates(PassBullets[i], PassBullets[j])

(***************************************************************************)
(* Fault specification: every operation of the store on an absent, a       *)
(* parseable and a damaged file                                            *)
(***************************************************************************)
\* the four settings of the two phase switches
OptimizerConfigs == [dedup_enabled : BOOLEAN, cleanup_enabled : BOOLEAN]

MergeFault ==
    \E n \in {<<>>} \cup {<<x>> : x \in SeedBullets(now)}, o \in SectionOrders :
        MergeDelta([new_bullets |-> n, updated_bullets |-> <<>>], o)
UpdateFault ==
    \E b \in SeedBullets(now), s \in Sections, o \in SectionOrders :
        UpdateBullet(record_success([b EXCEPT !.content = TextUpdated, !.section = s], now), o)
RecordFault ==
    \E id \in StoreIds, success \in BOOLEAN, o \in SectionOrders :
        RecordBulletUsage(<<id>>, success, o)
PassFault ==
    \E c \in OptimizerConfigs, o1 \in SectionOrders, o2 \in SectionOrders : Optimize(c, o1, o2)

NextFault ==
    \/ MergeFault
    \/ UpdateFault
    \/ RecordFault
    \/ PassFault
    \/ LoadPlaybook
    \/ Clear
    \/ ClearWithoutArchive
    \/ Corrupt

SpecFault == Init /\ [][NextFault]_vars

(***************************************************************************)
(* Claims checked under SpecFault                                          *)
(***************************************************************************)
\* the operations that load the playbook before they write it
LoadBasedOps == {"merge_delta", "update_bullet", "record_bullet_usage", "optimize"}
IsEmptyPlaybook(pb) == \A s \in Sections : pb.bullets[s] = <<>>

\* C9 as stated: load_playbook returns an empty playbook exactly when the
\* file is absent and an error when it is malformed, and every load-based
\* mutating operation on a malformed file fails and leaves the file as it is.
C9_EmptyExactlyWhenAbsent ==
    /\ (last.op = "load_playbook")
       => /\ last.ok <=> last.pre.kind # "malformed"
          /\ (last.ok /\ IsEmptyPlaybook(last.out)) <=> last.pre.kind = "absent"
    /\ (last.op \in LoadBasedOps /\ last.pre.kind = "malformed")
       => ~last.ok /\ file = last.pre

\* C9, amended: load_playbook returns Playbook::new() for an absent file, the
\* stored playbook (empty only if an empty one was saved) for a parseable
\* file and an error for a malformed one; merge_delta with a non-empty delta,
\* update_bullet, record_bullet_usage and a maintenance pass on a malformed
\* file fail and leave file and archive untouched; merge_delta with an empty
\* delta succeeds without touching them; only clear replaces a malformed file.
C9_MalformedFileIsNeverReplacedByLoadBasedOps ==
    /\ (last.op = "load_playbook")
       => /\ last.ok <=> last.pre.kind # "malformed"
          /\ last.pre.kind = "absent" => last.out = Playbook_new
          /\ last.pre.kind = "ok" => last.out = last.pre.pb
          /\ file = last.pre
    /\ (last.op \in LoadBasedOps /\ last.pre.kind = "malformed")
       => /\ file = MalformedFile
          /\ last.op = "merge_delta" => archive = last.preArchive
          /\ last.ok <=> (last.op = "merge_delta" /\ is_empty(last.delta))
    /\ (last.op \in {"clear", "clear_without_archive"})
       => file = save_playbook(Playbook_new)

\* a usage record or a maintenance pass has failed on a malformed file,
\* and the malformed file is still in place
C9_Witness ==
    /\ last.op \in {"record_bullet_usage", "optimize"}
    /\ last.pre.kind = "malformed"
    /\ ~last.ok
    /\ file = MalformedFile

\* the operations of the store that load the file and may write it, and the
\* two clears
WritingOps ==
    {"merge_delta", "update_bullet", "record_bullet_usage", "optimize", "clear",
     "clear_without_archive"}

\* C16: over merge_delta, update_bullet, archive-and-trim, clear and
\* maintenance the version of the persisted playbook never decreases, and it
\* grows whenever the operation added, replaced or removed a bullet (a usage
\* record, which only counts, may leave it as it is).
C16_VersionNeverDecreases ==
    (last.op \in WritingOps /\ last.ok /\ last.pre.kind = "ok" /\ file.kind = "ok")
    => /\ file.pb.version >= last.pre.pb.version
       /\ (last.op # "record_bullet_usage" /\ file.pb.bullets # last.pre.pb.bullets)
          => file.pb.version > last.pre.pb.version

\* the stored bullets, section after section
StoredBullets == Flatten([i \in 1..Len(SetToSeq(Sections)) |-> file.pb.bullets[SetToSeq(Sections)[i]]])

\* C17: in every persisted playbook no two bullets share an id, also after a
\* delta brought a new bullet under an id that was already stored.
C17_IdsAreUnique ==
    file.kind = "ok"
    => \A i \in DOMAIN StoredBullets : \A j \in DOMAIN StoredBullets :
           i # j => StoredBullets[i].id # StoredBullets[j].id

\* C18: every bullet stored in the list of section s names s as its section,
\* and an update leaves the section of the id it replaces as it was.
C18_BulletStaysInItsSection ==
    /\ file.kind = "ok"
       => \A s \in Sections : \A i \in DOMAIN file.pb.bullets[s] :
              file.pb.bullets[s][i].section = s
    /\ (last.op = "update_bullet" /\ last.ok /\ last.updated)
       => Found(file.pb, last.bullet.id)[1].section = Found(PrePb, last.bullet.id)[1].section

\* C19: in every persisted bullet the stored success_rate is the rate the
\* counters give, success_count / (success_count + failure_count), 0 without
\* a count.
C19_StoredRateMatchesCounters ==
    file.kind = "ok"
    => \A i \in DOMAIN StoredBullets :
           /\ RLe(StoredBullets[i].success_rate, success_rate(StoredBullets[i]))
           /\ RLe(success_rate(StoredBullets[i]), StoredBullets[i].success_rate)

\* C20: BulletStorage::clear leaves an empty playbook and an archive file
\* that holds the playbook it cleared; clear_without_archive leaves an empty
\* playbook and the archive as it was.
C20_ClearArchivesFirst ==
    /\ (last.op = "clear" /\ last.ok /\ last.pre.kind = "ok" /\ last.pre.pb.total_bullets > 0)
       => /\ file = save_playbook(Playbook_new)
          /\ \E n \in DOMAIN archive : archive[n] = last.pre.pb
    /\ (last.op = "clear_without_archive" /\ last.ok)
       => file = save_playbook(Playbook_new) /\ archive = last.preArchive

(***************************************************************************)
(* Retrieval (storage.rs): keywords, stemming, scoring                     *)
(***************************************************************************)
\* const STOP_WORDS
STOP_WORDS ==
    {<<"a">>, <<"a", "n">>, <<"t", "h", "e">>, <<"i", "s">>, <<"a", "r", "e">>,
     <<"w", "a", "s">>, <<"w", "e", "r", "e">>, <<"b", "e">>, <<"b", "e", "e", "n">>,
     <<"b", "e", "i", "n", "g">>, <<"t", "o">>, <<"o", "f">>, <<"i", "n">>, <<"f", "o", "r">>,
     <<"o", "n">>, <<"w", "i", "t", "h">>, <<"a", "t">>, <<"b", "y">>, <<"f", "r", "o", "m">>,
     <<"a", "s">>, <<"i", "t">>, <<"i", "t", "s">>, <<"t", "h", "i", "s">>,
     <<"t", "h", "a", "t">>, <<"t", "h", "e", "s", "e">>, <<"t", "h", "o", "s", "e">>,
     <<"w", "h", "i", "c", "h">>, <<"w", "h", "a", "t">>, <<"w", "h", "o">>,
     <<"h", "o", "w">>, <<"w", "h", "e", "n">>, <<"w", "h", "e", "r", "e">>,
     <<"w", "h", "y">>, <<"a", "l", "l">>, <<"e", "a", "c", "h">>,
     <<"e", "v", "e", "r", "y">>, <<"b", "o", "t", "h">>, <<"f", "e", "w">>,
     <<"a", "n", "d">>, <<"o", "r">>, <<"b", "u", "t">>, <<"n", "o", "t">>, <<"n", "o">>,
     <<"n", "o", "r">>, <<"s", "o">>, <<"y", "e", "t">>, <<"i", "f">>, <<"t", "h", "e", "n">>,
     <<"e", "l", "s", "e">>, <<"c", "a", "n">>, <<"c", "o", "u", "l", "d">>,
     <<"w", "i", "l", "l">>, <<"w", "o", "u", "l", "d">>, <<"s", "h", "a", "l", "l">>,
     <<"s", "h", "o", "u", "l", "d">>, <<"m", "a", "y">>, <<"m", "i", "g", "h", "t">>,
     <<"m", "u", "s", "t">>, <<"d", "o">>, <<"d", "o", "e", "s">>, <<"d", "i", "d">>,
     <<"d", "o", "n", "e">>, <<"d", "o", "i", "n", "g">>, <<"h", "a", "s">>,
     <<"h", "a", "v", "e">>, <<"h", "a", "d">>, <<"h", "a", "v", "i", "n", "g">>,
     <<"a", "m">>, <<"y", "o", "u", "r">>, <<"m", "y">>, <<"o", "u", "r">>, <<"h", "i", "s">>,
     <<"h", "e", "r">>, <<"t", "h", "e", "i", "r">>, <<"m", "e">>, <<"y", "o", "u">>,
     <<"w", "e">>, <<"h", "e">>, <<"s", "h", "e">>}

DropLast(word, n) == SubSeq(word, 1, Len(word) - n)

\* simple_stem: None or Some(stem); len is the length in bytes
simple_stem(w0) ==
    LET word == to_lowercase(w0)
        len == ByteLen(word)
    IN  IF EndsWith(word, <<"i", "n", "g">>) /\ len > 5
        THEN LET stem == DropLast(word, 3)
             IN  IF Len(stem) >= 2 /\ stem[Len(stem)] = stem[Len(stem) - 1]
                    /\ stem[Len(stem)] \notin VowelChars
                 THEN Some(DropLast(stem, 1))
                 ELSE Some(stem)
        ELSE IF EndsWith(word, <<"e", "d">>) /\ len > 4 THEN Some(DropLast(word, 2))
        ELSE IF EndsWith(word, <<"e", "s">>) /\ len > 4
        THEN LET without_es == DropLast(word, 2)
             IN  IF \/ EndsWith(without_es, <<"c", "h">>)
                    \/ EndsWith(without_es, <<"s", "h">>)
                    \/ EndsWith(without_es, <<"x">>)
                    \/ EndsWith(without_es, <<"s">>)
                    \/ EndsWith(without_es, <<"z">>)
                 THEN Some(without_es)
                 ELSE Some(DropLast(word, 1))
        ELSE IF /\ EndsWith(word, <<"s">>) /\ len > 3
                /\ ~EndsWith(word, <<"s", "s">>) /\ ~EndsWith(word, <<"u", "s">>)
        THEN Some(DropLast(word, 1))
        ELSE IF EndsWith(word, <<"l", "y">>) /\ len > 4 THEN Some(DropLast(word, 2))
        ELSE IF /\ EndsWith(word, <<"e", "r">>) /\ len > 4
                /\ DropLast(word, 2)[Len(word) - 2] \in LowerChars \cup CjkChars
                /\ \/ EndsWith(DropLast(word, 2), <<"f", "a", "s", "t">>)
                   \/ EndsWith(DropLast(word, 2), <<"s", "l", "o", "w">>)
                   \/ EndsWith(DropLast(word, 2), <<"q", "u", "i", "c", "k">>)
        THEN Some(DropLast(word, 2))
        ELSE None

\* the characters of the model in the order of their UTF-8 encoding
CharOrder ==
    <<" ", "!", "-">> \o <<"0","1","2","3","4","5","6","7","8","9">> \o <<":">>
        \o UpperSeq \o <<"_">> \o LowerSeq \o <<"U4E2D", "U6587", "U6D4B", "U8BD5">>
CharRank(c) == CHOOSE i \in DOMAIN CharOrder : CharOrder[i] = c

RECURSIVE StrLt(_, _)
\* String's Ord: bytewise lexicographic, a proper prefix first
StrLt(a, b) ==
    IF b = <<>> THEN FALSE
    ELSE IF a = <<>> THEN TRUE
    ELSE IF Head(a) = Head(b) THEN StrLt(Tail(a), Tail(b))
    ELSE CharRank(Head(a)) < CharRank(Head(b))

RECURSIVE InsertAsc(_, _)
InsertAsc(sorted, x) ==
    IF sorted = <<>> THEN <<x>>
    ELSE IF StrLt(x, Head(sorted)) THEN <<x>> \o sorted
    ELSE <<Head(sorted)>> \o InsertAsc(Tail(sorted), x)

RECURSIVE SortAsc(_, _)
\* Vec<String>::sort
SortAsc(todo, sorted) ==
    IF todo = <<>> THEN sorted ELSE SortAsc(Tail(todo), InsertAsc(sorted, Head(todo)))

RECURSIVE Dedup(_)
\* Vec::dedup: consecutive equal elements collapse to one
Dedup(s) ==
    IF Len(s) < 2 THEN s
    ELSE IF s[1] = s[2] THEN Dedup(Tail(s))
    ELSE <<s[1]>> \o Dedup(Tail(s))

\* the keywords one word of the query contributes: the word and its stem
word_keywords(word) ==
    IF word = <<>> THEN <<>>
    ELSE IF ~(\A i \in DOMAIN word : is_ascii_alphanumeric(word[i])) THEN <<>>
    ELSE IF ~(ByteLen(word) >= 2 /\ word \notin STOP_WORDS) THEN <<>>
    ELSE LET stem == simple_stem(word)
         IN  IF stem # None /\ stem[1] # word /\ stem[1] \notin STOP_WORDS
             THEN <<word, stem[1]>>
             ELSE <<word>>

\* BulletStorage::extract_keywords
extract_keywords(query) ==
    LET query_lower == to_lowercase(query)
        words == SplitOn(query_lower,
                         {c \in SeqToSet(query_lower) : ~is_alphanumeric(c)}, <<>>)
        english == Flatten([i \in DOMAIN words |-> word_keywords(words[i])])
        chinese_chars == FilterSeq(query_lower, {c \in SeqToSet(query_lower) : is_cjk(c)})
        chinese == IF Len(chinese_chars) >= 2
                   THEN [i \in 1..(Len(chinese_chars) - 1) |-> SubSeq(chinese_chars, i, i + 1)]
                        \o <<chinese_chars>>
                   ELSE <<>>
    IN  Dedup(SortAsc(english \o chinese, <<>>))

\* const FUZZY_THRESHOLD, HIGH_MATCH_THRESHOLD and the score floor
FUZZY_THRESHOLD == Rat(5, 10)
HIGH_MATCH_THRESHOLD == Rat(7, 10)
ScoreFloor == RInt(2)

RECURSIVE SumRat(_)
\* the f32 sum of a sequence of addends
SumRat(xs) == IF xs = <<>> THEN RInt(0) ELSE RAdd(Head(xs), SumRat(Tail(xs)))
CountTrue(bs) == Cardinality({i \in DOMAIN bs : bs[i]})

\* match keyword.len() { 2..=3 => 2.0, 4..=6 => 4.0, _ => 5.0 }
word_score(keyword) ==
    IF ByteLen(keyword) \in 2..3 THEN RInt(2)
    ELSE IF ByteLen(keyword) \in 4..6 THEN RInt(4)
    ELSE RInt(5)

\* str::strip_prefix("lang:"): None or Some(rest)
strip_lang_prefix(tag) ==
    IF Len(tag) >= 5 /\ SubSeq(tag, 1, 5) = <<"l", "a", "n", "g", ":">>
    THEN Some(SubSeq(tag, 6, Len(tag))) ELSE None

\* layer 1 of query_bullets: [score, match_count] of the exact matches
exact_match(bullet, query_lower, keywords) ==
    LET content_lower == to_lowercase(bullet.content)
        tags_str == to_lowercase(JoinWith(bullet.tags, <<" ">>))
        content_chinese == FilterSeq(content_lower,
                                     {c \in SeqToSet(content_lower) : is_cjk(c)})
        full == Contains(content_lower, query_lower)
        in_content == [i \in DOMAIN keywords |-> Contains(content_lower, keywords[i])]
        in_tags == [i \in DOMAIN keywords |-> Contains(tags_str, keywords[i])]
        in_chinese == [i \in DOMAIN keywords |->
                          /\ \A j \in DOMAIN keywords[i] : is_cjk(keywords[i][j])
                          /\ Contains(content_chinese, keywords[i])]
    IN  [score |->
            RAdd(IF full THEN RInt(15) ELSE RInt(0),
                 SumRat([i \in DOMAIN keywords |->
                            RAdd(RAdd(IF in_content[i] THEN word_score(keywords[i]) ELSE RInt(0),
                                      IF in_tags[i] THEN RInt(3) ELSE RInt(0)),
                                 IF in_chinese[i] THEN RInt(Min2(Len(keywords[i]), 4))
                                 ELSE RInt(0))])),
         match_count |->
            (IF full THEN 3 ELSE 0) + CountTrue(in_content) + CountTrue(in_tags)
                + CountTrue(in_chinese)]

\* layer 2: the fuzzy match, tried when fewer than two exact matches
fuzzy_match(bullet, query_normalized, m) ==
    LET content_normalized == normalize_text(to_lowercase(bullet.content), TRUE)
        overall_similarity == combined_similarity(query_normalized, content_normalized)
    IN  IF m.match_count >= 2 THEN m
        ELSE IF RGt(overall_similarity, HIGH_MATCH_THRESHOLD)
        THEN [score |-> RAdd(m.score, RMul(overall_similarity, RInt(8))),
              match_count |-> m.match_count + 1]
        ELSE IF RGt(overall_similarity, FUZZY_THRESHOLD)
        THEN [score |-> RAdd(m.score, RMul(overall_similarity, RInt(4))),
              match_count |-> m.match_count]
        ELSE m

\* layer 3: the metadata bonus of a bullet with two or more matches
metadata_bonus(bullet, query_lower, keywords, m) ==
    LET tools == bullet.related_tools
        langs == [i \in DOMAIN bullet.tags |-> strip_lang_prefix(to_lowercase(bullet.tags[i]))]
        lang_hits == Cardinality({p \in (DOMAIN keywords) \X (DOMAIN langs) :
                        /\ langs[p[2]] # None
                        /\ \/ langs[p[2]][1] = keywords[p[1]]
                           \/ Contains(keywords[p[1]], langs[p[2]][1])})
        tool_hits == CountTrue([i \in DOMAIN tools |->
                                   Contains(query_lower, to_lowercase(tools[i]))])
    IN  IF m.match_count < 2 THEN m
        ELSE [score |->
                 RAdd(RAdd(RAdd(m.score, RMul(bullet.importance, RInt(3))),
                           IF RGt(success_rate(bullet), Rat(7, 10)) THEN RInt(2) ELSE RInt(0)),
                      RInt(3 * tool_hits + 2 * lang_hits)),
              match_count |-> m.match_count]

\* the quality penalty: half the score when under 30% of the keywords match
quality_penalty(keywords, m) ==
    IF keywords # <<>> /\ RLt(Rat(m.match_count, Len(keywords)), Rat(3, 10))
       /\ RGt(m.score, RInt(0))
    THEN RMul(m.score, Rat(5, 10))
    ELSE m.score

\* the score query_bullets gives one bullet
query_score(bullet, query) ==
    LET query_lower == to_lowercase(query)
        query_normalized == normalize_text(query_lower, TRUE)
        keywords == extract_keywords(query_lower)
    IN  quality_penalty(keywords,
            metadata_bonus(bullet, query_lower, keywords,
                fuzzy_match(bullet, query_normalized,
                    exact_match(bullet, query_lower, keywords))))

\* query_bullets that returns the candidates in the order it met them
query_bullets_unsorted(f, query, max_results, order) ==
    LET loaded == load_playbook(f)
        all == all_bullets(loaded.pb, order)
        results == FilterSeq(all, {b \in SeqToSet(all) : RGt(query_score(b, query), ScoreFloor)})
    IN  IF ~loaded.ok THEN [ok |-> FALSE, out |-> <<>>]
        ELSE [ok |-> TRUE, out |-> Take(results, max_results)]

\* BulletStorage::query_bullets: [ok, out]; the candidates above the floor
\* in the map's iteration order, sorted by descending score, cut to max_results
query_bullets(f, query, max_results, order) ==
    LET loaded == load_playbook(f)
        all == all_bullets(loaded.pb, order)
        scored == [i \in DOMAIN all |-> [k |-> query_score(all[i], query), v |-> all[i]]]
        results == FilterSeq(scored, {r \in SeqToSet(scored) : RGt(r.k, ScoreFloor)})
        ranked == Take(SortDesc(results, <<>>), max_results)
    IN  IF ~loaded.ok THEN [ok |-> FALSE, out |-> <<>>]
        ELSE [ok |-> TRUE, out |-> [i \in DOMAIN ranked |-> ranked[i].v]]

\* a call of query_bullets(query, max_results)
QueryBullets(query, max_results, order) ==
    LET r == query_bullets(file, query, max_results, order)
    IN  /\ Step
        /\ last' = [op |-> "query_bullets", ok |-> r.ok, pre |-> file, query |-> query,
                    max_results |-> max_results, out |-> r.out]
        /\ UNCHANGED <<file, archive, now>>

(***************************************************************************)
(* Query specification: ingest of tagged bullets, then queries             *)
(***************************************************************************)
\* the largest max_results a query of this specification asks for
MaxK == 2

TextCargo == <<"U", "s", "e", " ", "c", "a", "r", "g", "o", " ", "t", "e", "s", "t", " ", "t", "o", " ", "r", "u", "n", " ", "t", "e", "s", "t", "s">>
TextBuild == <<"R", "u", "n", " ", "t", "e", "s", "t", "s", " ", "b", "e", "f", "o", "r", "e", " ", "b", "u", "i", "l", "d">>
TextTesa == <<"t", "e", "s", "a">>
TextChinese == <<"U4E2D", "U6587", "U6D4B", "U8BD5">>
TagTesting == <<"t", "e", "s", "t", "i", "n", "g">>
TagRust == <<"r", "u", "s", "t">>

\* the bullets of test_storage_query_bullets, a bullet of ideographs and a
\* bullet that only resembles the word "test"
QueryBulletSet(t) ==
    {[Bullet_new("b1", "ToolUsageTips", TextCargo, t) EXCEPT !.tags = <<TagTesting, TagRust>>],
     Bullet_new("b2", "General", TextBuild, t),
     Bullet_new("b3", "General", TextChinese, t),
     Bullet_new("b4", "ToolUsageTips", TextTesa, t)}

\* the queries: empty, a stop word, words with and without a stem, ideographs
Queries ==
    {<<>>, <<"t", "h", "e">>, <<"t", "e", "s", "t">>, <<"r", "u", "s", "t">>, <<"T", "e", "s", "t", "i", "n", "g", "!">>,
     <<"U6D4B", "U8BD5">>}

MergeQuery ==
    \E b \in QueryBulletSet(now), o \in SectionOrders :
        MergeDelta([new_bullets |-> <<b>>, updated_bullets |-> <<>>], o)
Query ==
    \E q \in Queries, k \in 0..MaxK, o \in SectionOrders : QueryBullets(q, k, o)

NextQuery ==
    \/ MergeQuery
    \/ Query
    \/ Corrupt

SpecQuery == Init /\ [][NextQuery]_vars

(***************************************************************************)
(* Claims checked under SpecQuery                                          *)
(***************************************************************************)
\* the bullets the last query loaded, and the score of a bullet for it
Stored == all_bullets(PrePb, CHOOSE o \in SectionOrders : TRUE)
LastScore(b) == query_score(b, last.query)
Count(s, v) == Cardinality({i \in DOMAIN s : s[i] = v})

\* C7: query_bullets with the empty string as query returns an empty list,
\* whatever the store holds and whatever the limit is.
C7_EmptyQueryReturnsNothing ==
    (last.op = "query_bullets" /\ last.query = <<>>) => last.out = <<>>

\* C8: query_bullets returns at most max_results bullets of the store, each
\* scoring strictly above 2.0, in order of non-increasing score, and no
\* bullet it leaves out scores higher than one it returns.
C8_TopKAboveFloorInOrder ==
    (last.op = "query_bullets" /\ last.ok)
    => /\ Len(last.out) <= last.max_results
       /\ \A i \in DOMAIN last.out : RGt(LastScore(last.out[i]), ScoreFloor)
       /\ \A i \in DOMAIN last.out : \A j \in DOMAIN last.out :
            i < j => RGe(LastScore(last.out[i]), LastScore(last.out[j]))
       /\ \A v \in SeqToSet(last.out) : Count(last.out, v) <= Count(Stored, v)
       /\ \A v \in SeqToSet(Stored) :
            Count(last.out, v) < Count(Stored, v)
            => \A i \in DOMAIN last.out : RLe(LastScore(v), LastScore(last.out[i]))

\* a query of words with limit 1 over a store that holds a lower-scoring
\* candidate above the floor and a bullet below it: the best one is returned
C8_Witness ==
    /\ last.op = "query_bullets" /\ last.ok
    /\ last.query # <<>>
    /\ last.max_results = 1 /\ Len(last.out) = 1
    /\ \E i \in DOMAIN Stored :
         /\ RGt(LastScore(Stored[i]), ScoreFloor)
         /\ RLt(LastScore(Stored[i]), LastScore(last.out[1]))
    /\ \E i \in DOMAIN Stored : RLe(LastScore(Stored[i]), ScoreFloor)

(***************************************************************************)
(* Tasks around the RwLock-wrapped store: maintenance passes and usage     *)
(* records, each transaction taken apart into lock, load and commit        *)
(***************************************************************************)
\* RwLock::write() when every acquisition succeeds at once
can_write_unguarded(l) == TRUE

\* RwLock::write() is granted when no writer and no reader holds the lock
can_write(l) == l.writer = "none" /\ l.readers = {}
\* RwLock::read() is granted when no writer holds the lock
can_read(l) == l.writer = "none"

\* the two spawned passes: start()'s loop and record_call()'s trigger
Passes == {"timer", "trigger"}

\* `let storage = self.storage.write().await`: task p waits for the write lock
AcquireWrite(p, from, to) ==
    /\ tasks[p].pc = from
    /\ can_write(lock)
    /\ lock' = [lock EXCEPT !.writer = p]
    /\ tasks' = [tasks EXCEPT ![p] = [tasks[p] EXCEPT !.pc = to]]
    /\ UNCHANGED <<file, archive, now, last, steps, index, mission, optimizer>>

\* `storage.load_playbook().await?` of a transaction: the task keeps what it read
LoadUnderLock(p, from, to, locals) ==
    /\ tasks[p].pc = from
    /\ tasks' = [tasks EXCEPT ![p] = [pc |-> to, snap |-> file] @@ locals @@ tasks[p]]
    /\ UNCHANGED <<file, archive, now, last, steps, index, mission, optimizer, lock>>

\* the end of a transaction of task p: the result r computed from what the
\* task read is saved when the code saves, the guard is dropped; gone is the
\* set of ids the task's transactions have removed so far
CommitUnderLock(p, phase, r, wrote, to) ==
    /\ file' = IF wrote THEN r.file ELSE file
    /\ lock' = [lock EXCEPT !.writer = IF @ = p THEN "none" ELSE @]
    /\ tasks' = [tasks EXCEPT ![p] =
                    [pc |-> IF r.ok THEN to ELSE "failed",
                     gone |-> (IF "gone" \in DOMAIN tasks[p] THEN tasks[p].gone ELSE {})
                              \cup (IF wrote THEN StoredIds(tasks[p].snap) \ StoredIds(r.file)
                                    ELSE {})] @@ tasks[p]]
    /\ last' = [op |-> "commit", ok |-> r.ok, task |-> p, phase |-> phase, pre |-> file,
                snap |-> tasks[p].snap, wrote |-> wrote,
                base |-> IF last.op = "commit" THEN last.base ELSE file]
    /\ UNCHANGED <<archive, now, steps, index, mission, optimizer>>

\* optimize(), phase 1: deduplicate_similar
DedupLock(p) == AcquireWrite(p, "idle", "dedup_locked")
DedupLoad(p, order) == LoadUnderLock(p, "dedup_locked", "dedup_loaded", [order |-> order])
DedupCommit(p) ==
    /\ tasks[p].pc = "dedup_loaded"
    /\ LET r == deduplicate_similar(tasks[p].snap, now, tasks[p].order)
       IN  CommitUnderLock(p, "dedup", r, r.removed > 0, "weights")

\* optimize(), phase 2: recalculate_weights under the read lock; it writes nothing
Weights(p) ==
    /\ tasks[p].pc = "weights"
    /\ can_read(lock)
    /\ tasks' = [tasks EXCEPT ![p] = [@ EXCEPT !.pc = IF recalculate_weights(file).ok
                                                      THEN "cleanup_wait" ELSE "failed"]]
    /\ last' = IF recalculate_weights(file).ok THEN last
               ELSE [op |-> "commit", ok |-> FALSE, task |-> p, phase |-> "weights",
                     pre |-> file, snap |-> file, wrote |-> FALSE,
                     base |-> IF last.op = "commit" THEN last.base ELSE file]
    /\ UNCHANGED <<file, archive, now, steps, index, mission, optimizer, lock>>

\* optimize(), phase 3: cleanup_low_value
CleanupLock(p) == AcquireWrite(p, "cleanup_wait", "cleanup_locked")
CleanupLoad(p, order) == LoadUnderLock(p, "cleanup_locked", "cleanup_loaded", [order |-> order])
CleanupCommit(p) ==
    /\ tasks[p].pc = "cleanup_loaded"
    /\ LET r == cleanup_low_value(tasks[p].snap, now, tasks[p].order)
       IN  CommitUnderLock(p, "cleanup", r, r.removed > 0, "done")

\* RecallTracker::record_bullet_usage(ids, _, success) as a task
UsageLock == AcquireWrite("usage", "idle", "usage_locked")
UsageLoad(ids, success, order) ==
    LoadUnderLock("usage", "usage_locked", "usage_loaded",
                  [ids |-> ids, success |-> success, order |-> order])
UsageCommit ==
    /\ tasks["usage"].pc = "usage_loaded"
    /\ LET t == tasks["usage"]
           r == record_bullet_usage(t.snap, t.ids, t.success, now, t.order)
       IN  CommitUnderLock("usage", "usage", r, r.ok, "done")

(***************************************************************************)
(* Lock specification: two passes and a usage record over a seeded store   *)
(***************************************************************************)
\* the stores the tasks start from: a near-duplicate pair with a short
\* low-importance bullet, or with a bullet of another section
LockSeeds(t) ==
    {<<BulletWith("b1", "General", Text8, t, Rat(5, 10), None),
       BulletWith("b2", "General", Text7, t, Rat(8, 10), None),
       BulletWith("b5", "General", TextUVW, t, Rat(2, 10), None)>>,
     <<BulletWith("b1", "General", Text8, t, Rat(5, 10), None),
       BulletWith("b4", "ToolUsageTips", Text8Punct, t, Rat(5, 10), None),
       BulletWith("b5", "General", TextUVW, t, Rat(2, 10), None)>>}

SeedStore ==
    /\ file.kind = "absent"
    /\ \E bs \in LockSeeds(now), o \in SectionOrders :
           MergeDelta([new_bullets |-> bs, updated_bullets |-> <<>>], o)
PassStep ==
    \E p \in Passes :
        \/ DedupLock(p)
        \/ \E o \in SectionOrders : DedupLoad(p, o)
        \/ DedupCommit(p)
        \/ Weights(p)
        \/ CleanupLock(p)
        \/ \E o \in SectionOrders : CleanupLoad(p, o)
        \/ CleanupCommit(p)
UsageStep ==
    \/ UsageLock
    \/ \E id \in StoredIds(file), success \in BOOLEAN, o \in SectionOrders :
           UsageLoad(<<id>>, success, o)
    \/ UsageCommit

NextLock ==
    \/ SeedStore
    \/ PassStep
    \/ UsageStep

SpecLock == Init /\ [][NextLock]_vars

(***************************************************************************)
(* Claims checked under SpecLock                                           *)
(***************************************************************************)
Lockers == Passes \cup {"usage"}
HoldsLock(p) ==
    tasks[p].pc \in {"dedup_locked", "dedup_loaded", "cleanup_locked", "cleanup_loaded",
                     "usage_locked", "usage_loaded"}
HasLoaded(p) == tasks[p].pc \in {"dedup_loaded", "cleanup_loaded", "usage_loaded"}
AllDone == \A p \in Lockers : tasks[p].pc = "done"

\* writing phase k of a pass (1 dedup, 2 cleanup), made as a whole on file f;
\* the weights phase between them writes nothing
PassPhase(f, k, order) ==
    IF k = 1 THEN deduplicate_similar(f, now, order).file
    ELSE cleanup_low_value(f, now, order).file

RECURSIVE SerialOutcomes(_, _, _, _)
\* the files some serial order of the remaining phases and of the usage
\* record leaves: a and b count the writing phases the two passes have made,
\* u the usage records made
SerialOutcomes(f, a, b, u) ==
    IF a = 2 /\ b = 2 /\ u = 1 THEN {f}
    ELSE (IF a < 2
          THEN UNION {SerialOutcomes(PassPhase(f, a + 1, o), a + 1, b, u) : o \in SectionOrders}
          ELSE {})
         \cup (IF b < 2
               THEN UNION {SerialOutcomes(PassPhase(f, b + 1, o), a, b + 1, u) :
                           o \in SectionOrders}
               ELSE {})
         \cup (IF u < 1
               THEN UNION {SerialOutcomes(
                               record_bullet_usage(f, tasks["usage"].ids, tasks["usage"].success,
                                                   now, o).file, a, b, 1) : o \in SectionOrders}
               ELSE {})

\* C12: overlapping maintenance passes and usage records on one RwLock-wrapped
\* store: a task between its load and its save holds the write lock alone and
\* the file is still the one it loaded, every save replaces exactly the file
\* its transaction loaded, and when all tasks are done the file is the result
\* of some serial order of their phases and calls.
C12_LockedTransactionsSerialize ==
    /\ \A p \in Lockers : HoldsLock(p) => lock.writer = p /\ lock.readers = {}
    /\ \A p \in Lockers : HasLoaded(p) => tasks[p].snap = file
    /\ last.op = "commit" => last.snap = last.pre
    /\ AllDone => file \in SerialOutcomes(last.base, 0, 0, 0)

\* a pass between two of its phases, the other pass holding the lock with the
\* store loaded, after a usage record and a removal were committed
C12_Witness ==
    /\ tasks["timer"].pc = "cleanup_wait"
    /\ tasks["trigger"].pc = "dedup_loaded"
    /\ tasks["usage"].pc = "done"
    /\ file.kind = "ok"
    /\ file.pb.total_bullets = 2
    /\ \E s \in Sections : \E i \in DOMAIN file.pb.bullets[s] :
           file.pb.bullets[s][i].recall_count = 1

(***************************************************************************)
(* Tasks of the plugin: a merge and a query on the unlocked store, the     *)
(* write of the file taken apart into its truncation and its completion    *)
(***************************************************************************)
\* fs::write(path, json) opens the file with create + truncate and then writes
\* the bytes: until the write completes the file holds a prefix of the JSON
\* text (at first nothing), which does not parse
write_begin(f) == MalformedFile

\* the merge a task in flight is making, from what it loaded
MergeOutcome(t) == merge_delta_apply(t.snap, t.preArchive, t.delta, t.at, t.order, MaxBullets)

\* merge_delta up to its load: the emptiness check, load_playbook().await?
MergeLoad(delta, order) ==
    /\ tasks["merge"].pc = "idle"
    /\ ~is_empty(delta)
    /\ tasks' = [tasks EXCEPT !["merge"] =
                    [pc |-> IF load_playbook(file).ok THEN "loaded" ELSE "failed",
                     snap |-> file, preArchive |-> archive, delta |-> delta,
                     order |-> order, at |-> now]]
    /\ UNCHANGED <<file, archive, now, last, steps, index, mission, optimizer, lock>>

\* merge_delta over the limit: auto_archive writes the snapshot
MergeArchive ==
    /\ tasks["merge"].pc = "loaded"
    /\ MergeOutcome(tasks["merge"]).trimmed
    /\ archive' = MergeOutcome(tasks["merge"]).archive
    /\ tasks' = [tasks EXCEPT !["merge"] = [@ EXCEPT !.pc = "archived"]]
    /\ UNCHANGED <<file, now, last, steps, index, mission, optimizer, lock>>

\* save_playbook, first half: the file is created or truncated
MergeWriteBegin ==
    /\ \/ tasks["merge"].pc = "loaded" /\ ~MergeOutcome(tasks["merge"]).trimmed
       \/ tasks["merge"].pc = "archived"
    /\ file' = write_begin(file)
    /\ tasks' = [tasks EXCEPT !["merge"] = [@ EXCEPT !.pc = "writing"]]
    /\ UNCHANGED <<archive, now, last, steps, index, mission, optimizer, lock>>

\* save_playbook, second half: the bytes are all written
MergeWriteEnd ==
    /\ tasks["merge"].pc = "writing"
    /\ file' = MergeOutcome(tasks["merge"]).file
    /\ tasks' = [tasks EXCEPT !["merge"] = [@ EXCEPT !.pc = "done"]]
    /\ UNCHANGED <<archive, now, last, steps, index, mission, optimizer, lock>>

\* the process stops while the merge is in flight
Crash ==
    /\ tasks["merge"].pc \in {"loaded", "archived", "writing"}
    /\ tasks' = [tasks EXCEPT !["merge"] = [pc |-> "crashed", at_crash |-> @.pc] @@ @]
    /\ UNCHANGED <<file, archive, now, last, steps, index, mission, optimizer, lock>>

\* storage.query_bullets(&query_content, 10) of pre_execute
PreExecuteLimit == 10

\* ACEPlugin::pre_execute: the query reads the file as it is at that moment;
\* an Err becomes a warning and no context
QueryRun(query, order) ==
    /\ tasks["query"].pc = "idle"
    /\ tasks["merge"].pc # "crashed"
    /\ LET r == query_bullets(file, query, PreExecuteLimit, order)
       IN  tasks' = [tasks EXCEPT !["query"] =
                        [pc |-> "done", ok |-> r.ok, out |-> r.out, saw |-> file,
                         during |-> tasks["merge"].pc, query |-> query]]
    /\ UNCHANGED <<file, archive, now, last, steps, index, mission, optimizer, lock>>

(***************************************************************************)
(* Plugin specification: a seeded store, one merge in steps, one query,    *)
(* a stop of the process                                                   *)
(***************************************************************************)
\* the stores the tasks start from: one bullet, or as many as the limit allows
PluginSeeds(t) ==
    {<<Bullet_new("b1", "ToolUsageTips", TextCargo, t)>>,
     <<Bullet_new("b1", "ToolUsageTips", TextCargo, t), Bullet_new("b2", "General", TextBuild, t),
       Bullet_new("b3", "General", TextChinese, t)>>}
\* the bullet the merge in flight adds
PluginNew(t) == {Bullet_new("b4", "ToolUsageTips", TextTesa, t), Bullet_new("b5", "General", TextBuild, t)}
QueryTest == <<"t", "e", "s", "t">>

SeedPlugin ==
    /\ file.kind = "absent"
    /\ \E bs \in PluginSeeds(now), o \in SectionOrders :
           MergeDelta([new_bullets |-> bs, updated_bullets |-> <<>>], o)
MergeTask ==
    \/ \E b \in PluginNew(now), o \in SectionOrders :
           MergeLoad([new_bullets |-> <<b>>, updated_bullets |-> <<>>], o)
    \/ MergeArchive
    \/ MergeWriteBegin
    \/ MergeWriteEnd
QueryTask == \E o \in SectionOrders : QueryRun(QueryTest, o)

NextPlugin ==
    \/ SeedPlugin
    \/ MergeTask
    \/ QueryTask
    \/ Crash

SpecPlugin == Init /\ [][NextPlugin]_vars

(***************************************************************************)
(* Claims checked under SpecPlugin                                         *)
(***************************************************************************)
MergeInFlight(pc) == pc \in {"loaded", "archived", "writing"}

\* C13: a query that runs while a merge_delta is in flight succeeds and reads
\* either the complete playbook the merge loaded or the complete playbook the
\* merge saves, never a partially written file.
C13_QuerySeesWholePlaybook ==
    (tasks["query"].pc = "done" /\ MergeInFlight(tasks["query"].during))
    => /\ tasks["query"].ok
       /\ tasks["query"].saw \in {tasks["merge"].snap, MergeOutcome(tasks["merge"]).file}

\* C15: after the process stops at any point of a merge_delta, the playbook
\* file loads and is either the file before the merge or the file the merge
\* saves.
C15_CrashLeavesLoadablePlaybook ==
    tasks["merge"].pc = "crashed"
    => /\ load_playbook(file).ok
       /\ file \in {tasks["merge"].snap, MergeOutcome(tasks["merge"]).file}

(***************************************************************************)
(* Pass specification: passes in steps with failing saves and a file       *)
(* damaged between two phases                                              *)
(***************************************************************************)
\* the save_playbook of a removing phase returns Err: fs::write failed either
\* before it touched the file or after it truncated it
SaveFails(p, phase, torn) ==
    /\ tasks[p].pc = (IF phase = "dedup" THEN "dedup_loaded" ELSE "cleanup_loaded")
    /\ LET r == IF phase = "dedup"
                THEN deduplicate_similar(tasks[p].snap, now, tasks[p].order)
                ELSE cleanup_low_value(tasks[p].snap, now, tasks[p].order)
       IN  r.ok /\ r.removed > 0
    /\ file' = IF torn THEN write_begin(file) ELSE file
    /\ lock' = [lock EXCEPT !.writer = IF @ = p THEN "none" ELSE @]
    /\ tasks' = [tasks EXCEPT ![p] = [@ EXCEPT !.pc = "failed"]]
    /\ last' = [op |-> "commit", ok |-> FALSE, task |-> p, phase |-> phase, pre |-> file,
                snap |-> tasks[p].snap, wrote |-> FALSE,
                base |-> IF last.op = "commit" THEN last.base ELSE file]
    /\ UNCHANGED <<archive, now, steps, index, mission, optimizer>>

\* the file is damaged outside the program while a pass is between two phases
Damage ==
    /\ \E p \in Passes : tasks[p].pc \in {"weights", "cleanup_wait"}
    /\ can_write(lock)
    /\ file.kind = "ok"
    /\ file' = MalformedFile
    /\ last' = [op |-> "damage", ok |-> TRUE]
    /\ UNCHANGED <<archive, now, steps, index, mission, optimizer, tasks, lock>>

FailingSave == \E p \in Passes, phase \in {"dedup", "cleanup"}, torn \in BOOLEAN : SaveFails(p, phase, torn)

NextPass ==
    \/ SeedStore
    \/ PassStep
    \/ FailingSave
    \/ Damage

SpecPass == Init /\ [][NextPass]_vars

(***************************************************************************)
(* Claims checked under SpecPass                                           *)
(***************************************************************************)
\* C14: when the weights phase or the eviction phase of a pass fails, the
\* pass has returned the error, the file is as it was when the failing phase
\* began, and no bullet the pass's dedup phase removed is in the playbook.
C14_FailedPhaseKeepsEarlierCommits ==
    \A p \in Passes :
        (tasks[p].pc = "failed" /\ last.op = "commit" /\ last.task = p
            /\ last.phase \in {"weights", "cleanup"})
        => /\ ~last.ok
           /\ file = last.pre
           /\ file.kind = "ok" => StoredIds(file) \cap tasks[p].gone = {}

(***************************************************************************)
(* The plugin's hooks as the host calls them                               *)
(***************************************************************************)
\* the match on the query's result if its error were unwrapped instead
unwrap_query(r) ==
    IF ~r.ok THEN [panicked |-> TRUE, context |-> None]
    ELSE [panicked |-> FALSE, context |-> IF r.out # <<>> THEN Some(r.out) ELSE None]

\* pre_execute with the unwrapping match
pre_execute_unwrap(enabled, f, query, order) ==
    IF ~enabled THEN [panicked |-> FALSE, context |-> None]
    ELSE unwrap_query(query_bullets(f, query, PreExecuteLimit, order))

\* the match on the query's result in pre_execute: bullets found become the
\* context, none found gives None, Err is logged as a warning and gives None
match_query(r) ==
    IF r.ok /\ r.out # <<>> THEN [panicked |-> FALSE, context |-> Some(r.out)]
    ELSE [panicked |-> FALSE, context |-> None]

\* ACEPlugin::pre_execute: None when disabled, else the match on the result of
\* query_bullets(query, 10)
pre_execute(enabled, f, query, order) ==
    IF ~enabled THEN [panicked |-> FALSE, context |-> None]
    ELSE match_query(query_bullets(f, query, PreExecuteLimit, order))

\* the outcomes of Reflector::analyze_conversation and Curator::process_insights
\* as the hooks tell them apart: Err, an empty result, a result
StageOutcomes == {"err", "empty", "ok"}

\* a call of pre_execute by the host
PreExecute(enabled, query, order) ==
    /\ last' = [op |-> "pre_execute", ok |-> TRUE, enabled |-> enabled, pre |-> file,
                query |-> query, result |-> pre_execute(enabled, file, query, order)]
    /\ UNCHANGED <<file, archive, now, steps, index, mission, optimizer, tasks, lock>>

\* a call of post_execute or on_todo_completed by the host: a disabled plugin
\* returns at once, an enabled one spawns the learning task and returns
PostExecute(hook, enabled, delta) ==
    /\ tasks["merge"].pc = "idle"
    /\ tasks' = IF enabled
                THEN [tasks EXCEPT !["merge"] = [pc |-> "reflecting", hook |-> hook,
                                                  delta |-> delta, spawned_on |-> file]]
                ELSE tasks
    /\ last' = [op |-> hook, ok |-> TRUE, enabled |-> enabled, pre |-> file,
                preArchive |-> archive, spawned |-> enabled]
    /\ UNCHANGED <<file, archive, now, steps, index, mission, optimizer, lock>>

\* the spawned task, step 1: the Reflector; Err is logged and ends the task
Reflect(outcome) ==
    /\ tasks["merge"].pc = "reflecting"
    /\ tasks' = [tasks EXCEPT !["merge"] =
                    [@ EXCEPT !.pc = IF outcome = "err" THEN "logged"
                                     ELSE IF outcome = "empty" THEN "ended" ELSE "curating"]]
    /\ UNCHANGED <<file, archive, now, last, steps, index, mission, optimizer, lock>>

\* the spawned task, step 2: the Curator; Err is logged and ends the task
Curate(outcome) ==
    /\ tasks["merge"].pc = "curating"
    /\ tasks' = [tasks EXCEPT !["merge"] =
                    [@ EXCEPT !.pc = IF outcome = "err" THEN "logged"
                                     ELSE IF outcome = "empty" \/ is_empty(tasks["merge"].delta) THEN "ended"
                                     ELSE "merging"]]
    /\ UNCHANGED <<file, archive, now, last, steps, index, mission, optimizer, lock>>

\* the spawned task, step 3: storage.merge_delta(delta); Err is logged
LearnMerge(order) ==
    /\ tasks["merge"].pc = "merging"
    /\ LET r == merge_delta(file, archive, tasks["merge"].delta, now, order, MaxBullets)
       IN  /\ file' = r.file
           /\ archive' = r.archive
           /\ tasks' = [tasks EXCEPT !["merge"] = [@ EXCEPT !.pc = IF r.ok THEN "ended" ELSE "logged"]]
    /\ UNCHANGED <<now, last, steps, index, mission, optimizer, lock>>

(***************************************************************************)
(* Hook specification: pre_execute, post_execute and on_todo_completed on  *)
(* a store that may be damaged                                             *)
(***************************************************************************)
HookNames == {"post_execute", "on_todo_completed"}

HostQuery == \E e \in BOOLEAN, o \in SectionOrders : PreExecute(e, QueryTest, o)
HostLearn ==
    \E h \in HookNames, e \in BOOLEAN, b \in PluginNew(now) :
        PostExecute(h, e, [new_bullets |-> <<b>>, updated_bullets |-> <<>>])
LearningTask ==
    \/ \E r \in StageOutcomes : Reflect(r)
    \/ \E c \in StageOutcomes : Curate(c)
    \/ \E o \in SectionOrders : LearnMerge(o)

NextHooks ==
    \/ SeedPlugin
    \/ Corrupt
    \/ HostQuery
    \/ HostLearn
    \/ LearningTask

SpecHooks == Init /\ [][NextHooks]_vars

(***************************************************************************)
(* Claims checked under SpecHooks                                          *)
(***************************************************************************)
\* C24: pre_execute never panics and gives no context when the plugin is
\* disabled or the store cannot be read; post_execute and on_todo_completed
\* return with the store as it was, having spawned the learning task exactly
\* when the plugin is enabled; a learning task that logged an error left the
\* store as it found it.
C24_FailuresStayInsideThePlugin ==
    /\ last.op = "pre_execute"
       => /\ ~last.result.panicked
          /\ (~last.enabled \/ ~load_playbook(last.pre).ok) => last.result.context = None
    /\ last.op \in HookNames
       => /\ last.spawned = last.enabled
          /\ tasks["merge"].pc = "reflecting" => file = last.pre /\ archive = last.preArchive
    /\ tasks["merge"].pc = "logged" => file = tasks["merge"].spawned_on

\* a query on a damaged store answered with no context, and a learning task
\* whose merge failed on it
C24_Witness ==
    /\ last.op = "pre_execute" /\ last.enabled /\ last.pre.kind = "malformed"
    /\ last.result.context = None
    /\ tasks["merge"].pc = "logged" /\ file.kind = "malformed"
(***************************************************************************)
(* The loop of BackgroundOptimizer::start                                  *)
(***************************************************************************)
\* the loop of start() if the pass's error were propagated with `?`: the
\* spawned task ends with the first failed pass
TimerSleepStopsOnError ==
    /\ tasks["timer"].pc = "done"
    /\ \E d \in {0, StaleDays + 1} :
           /\ now + d * SecsPerDay <= MaxDays * SecsPerDay
           /\ now' = now + d * SecsPerDay
    /\ tasks' = [tasks EXCEPT !["timer"] = [pc |-> "idle", finished |-> "completed"]]
    /\ UNCHANGED <<file, archive, last, steps, index, mission, optimizer, lock>>

\* the loop of start(): the pass's Err is logged, and the loop sleeps the
\* interval before the next pass whether the pass completed or failed;
\* d is the part of the days gone by that the clock shows after the sleep
TimerSleep ==
    /\ tasks["timer"].pc \in {"done", "failed"}
    /\ \E d \in {0, StaleDays + 1} :
           /\ now + d * SecsPerDay <= MaxDays * SecsPerDay
           /\ now' = now + d * SecsPerDay
    /\ tasks' = [tasks EXCEPT !["timer"] =
                    [pc |-> "idle",
                     finished |-> IF tasks["timer"].pc = "done" THEN "completed" ELSE "failed"]]
    /\ UNCHANGED <<file, archive, last, steps, index, mission, optimizer, lock>>

\* optimizer.optimize() of the loop, phase by phase
TimerPass ==
    \/ DedupLock("timer")
    \/ \E o \in SectionOrders : DedupLoad("timer", o)
    \/ DedupCommit("timer")
    \/ Weights("timer")
    \/ CleanupLock("timer")
    \/ \E o \in SectionOrders : CleanupLoad("timer", o)
    \/ CleanupCommit("timer")

\* the file is damaged outside the program, at any moment
Break ==
    /\ file.kind = "ok"
    /\ file' = MalformedFile
    /\ last' = [op |-> "break", ok |-> TRUE]
    /\ UNCHANGED <<archive, now, steps, index, mission, optimizer, tasks, lock>>

\* the store of the loop: one short bullet of low importance, which a pass
\* leaves alone while it is young and removes once it is stale
TimerSeeds(t) == {<<BulletWith("b5", "General", TextUVW, t, Rat(2, 10), None)>>}

\* a merge_delta of the bullet into a fresh store, between two passes
TimerSeed ==
    /\ tasks["timer"].pc = "idle"
    /\ file \in {AbsentFile, storage_clear(file)}
    /\ \E bs \in TimerSeeds(now), o \in SectionOrders :
           file' = merge_delta(file, archive, [new_bullets |-> bs, updated_bullets |-> <<>>],
                               now, o, MaxBullets).file
    /\ last' = [op |-> "seed", ok |-> TRUE]
    /\ UNCHANGED <<archive, now, steps, index, mission, optimizer, tasks, lock>>

\* the store becomes loadable again: clear() rewrites the file without
\* reading it
Mend ==
    /\ file.kind = "malformed"
    /\ file' = storage_clear(file)
    /\ last' = [op |-> "mend", ok |-> TRUE]
    /\ UNCHANGED <<archive, now, steps, index, mission, optimizer, tasks, lock>>

(***************************************************************************)
(* Timer specification: the loop of start() over a store that is damaged   *)
(* and mended from outside; the runtime keeps scheduling the spawned loop  *)
(***************************************************************************)
TimerLoop == TimerPass \/ TimerSleep

NextTimer ==
    \/ TimerSeed
    \/ Break
    \/ Mend
    \/ TimerPass
    \/ TimerSleep

SpecTimer == Init /\ [][NextTimer]_vars /\ WF_vars(TimerLoop)

(***************************************************************************)
(* Claims checked under SpecTimer                                          *)
(***************************************************************************)
Loadable == load_playbook(file).ok

\* C25: after a failed pass of the loop started by start(), if the store is
\* loadable from then on, a later pass of the loop completes.
C25_LoopRetriesAfterFailure ==
    [](((tasks["timer"].pc = "failed") /\ []Loadable) => <>(tasks["timer"].pc = "done"))

\* a pass of the loop that completed after the pass before it failed
C25_Witness ==
    /\ tasks["timer"].pc = "done"
    /\ "finished" \in DOMAIN tasks["timer"]
    /\ tasks["timer"].finished = "failed"
(***************************************************************************)
(* Rank specification: bullets that hold the query, bullets that only      *)
(* resemble it, and queries with and without keywords                      *)
(***************************************************************************)
TextIsRust == <<"i", "s", " ", "r", "u", "s", "t">>
TextIsRusk == <<"i", "s", " ", "r", "u", "s", "k">>
TextThat == <<"t", "h", "a", "t">>
TextThaw == <<"t", "h", "a", "w">>

\* bullets of high and of low importance holding each of the texts
RankBullets(t) ==
    {BulletWith("r1", "General", TextIsRust, t, Rat(9, 10), None),
     BulletWith("r2", "General", TextIsRusk, t, Rat(9, 10), None),
     BulletWith("r3", "ToolUsageTips", TextIsRusk, t, Rat(2, 10), None),
     BulletWith("r4", "ToolUsageTips", TextThat, t, Rat(2, 10), None),
     BulletWith("r5", "General", TextThaw, t, Rat(2, 10), None)}

\* the queries: a question with one keyword, and a stop word
RankQueries == {TextIsRust, TextThat}

MergeRank ==
    \E b \in RankBullets(now), o \in SectionOrders :
        MergeDelta([new_bullets |-> <<b>>, updated_bullets |-> <<>>], o)
QueryRank ==
    \E q \in RankQueries, k \in 0..MaxK, o \in SectionOrders : QueryBullets(q, k, o)

NextRank ==
    \/ MergeRank
    \/ QueryRank

SpecRank == Init /\ [][NextRank]_vars

(***************************************************************************)
(* Claims checked under SpecRank                                           *)
(***************************************************************************)
\* the metadata of a bullet: everything but its id, section and content
SameMetadata(a, b) ==
    [a EXCEPT !.id = "", !.section = "", !.content = <<>>]
        = [b EXCEPT !.id = "", !.section = "", !.content = <<>>]
\* the content holds the whole lowercased query
LiteralMatch(b) == Contains(to_lowercase(b.content), to_lowercase(last.query))
\* no literal and no keyword match, and the fuzzy fallback added to the score
FuzzyOnly(b) ==
    LET e == exact_match(b, to_lowercase(last.query), extract_keywords(to_lowercase(last.query)))
        f == fuzzy_match(b, normalize_text(to_lowercase(last.query), TRUE), e)
    IN  e.match_count = 0 /\ RGt(f.score, RInt(0))

\* C26: of two stored bullets with equal metadata, one whose content holds
\* the whole query and one matched by the fuzzy fallback only, the first
\* scores strictly higher, and the second is never returned without the
\* first before it.
C26_LiteralBeforeFuzzy ==
    (last.op = "query_bullets" /\ last.ok)
    => \A a \in SeqToSet(Stored), b \in SeqToSet(Stored) :
         (SameMetadata(a, b) /\ LiteralMatch(a) /\ FuzzyOnly(b))
         => /\ RGt(LastScore(a), LastScore(b))
            /\ \A j \in DOMAIN last.out :
                 last.out[j] = b => \E i \in 1..(j - 1) : last.out[i] = a

\* a query that returned a literal match and, after it, a bullet that only
\* resembles the query
C26_Witness ==
    /\ last.op = "query_bullets" /\ last.ok
    /\ \E i \in DOMAIN last.out, j \in DOMAIN last.out :
         /\ i < j
         /\ SameMetadata(last.out[i], last.out[j])
         /\ LiteralMatch(last.out[i])
         /\ FuzzyOnly(last.out[j])
(***************************************************************************)
(* Score specification: layer 1 of the scoring applied to one bullet and   *)
(* one query                                                               *)
(***************************************************************************)
\* contents and tag lists of the scored bullets, and the queries
ScoreContents == {TextCargo, TextBuild, TextChinese, TextTesa, TagTesting, TagRust}
ScoreTags == {<<>>, <<TagRust>>, <<TagTesting, TagRust>>}
ScoreQueries == Queries \cup {<<"r", "u", "n">>}

\* layer 1 of query_bullets for the bullet and the query
ExactMatch(bullet, query) ==
    /\ Step
    /\ last' = [op |-> "exact_match", ok |-> TRUE, bullet |-> bullet, query |-> query,
                keywords |-> extract_keywords(to_lowercase(query)),
                m |-> exact_match(bullet, to_lowercase(query),
                                  extract_keywords(to_lowercase(query)))]
    /\ UNCHANGED <<file, archive, now>>

NextScore ==
    \E c \in ScoreContents, tags \in ScoreTags, q \in ScoreQueries :
        ExactMatch([Bullet_new("s1", "General", c, now) EXCEPT !.tags = tags], q)

SpecScore == Init /\ [][NextScore]_vars

(***************************************************************************)
(* Claims checked under SpecScore                                          *)
(***************************************************************************)
\* the weight of a keyword found in the content, by its number of characters
TierWeight(keyword) ==
    IF Len(keyword) \in 2..3 THEN 2
    ELSE IF Len(keyword) \in 4..6 THEN 4
    ELSE IF Len(keyword) > 6 THEN 6
    ELSE 0

\* the score of layer 1 as the weights are stated: 15 for the whole query in
\* the content, the tier weight per keyword in the content, 3 per keyword in
\* the tags, min(length, 4) per keyword of ideographs among the content's
StatedScore(bullet, query, keywords) ==
    LET content == to_lowercase(bullet.content)
        tags == to_lowercase(JoinWith(bullet.tags, <<" ">>))
        ideographs == FilterSeq(content, {c \in SeqToSet(content) : is_cjk(c)})
        Weight(k) ==
            (IF Contains(content, k) THEN TierWeight(k) ELSE 0)
            + (IF Contains(tags, k) THEN 3 ELSE 0)
            + (IF (\A j \in DOMAIN k : is_cjk(k[j])) /\ Contains(ideographs, k)
               THEN Min2(Len(k), 4) ELSE 0)
    IN  (IF Contains(content, to_lowercase(query)) THEN 15 ELSE 0)
        + SumSet(DOMAIN keywords, [i \in DOMAIN keywords |-> Weight(keywords[i])])

\* C27: layer 1 of the scoring adds 15 for the whole query in the content,
\* 2, 4 or 6 per keyword found in the content by its length (2-3, 4-6, more
\* than 6 characters) and 3 per keyword found in the tags.
C27_ScoreWeights ==
    last.op = "exact_match"
    => last.m.score = RInt(StatedScore(last.bullet, last.query, last.keywords))
(***************************************************************************)
(* LightweightIndex (lightweight_index.rs): the id map, the section map,   *)
(* the keyword map and the recency cache of 100 entries, which lookups     *)
(* and searches fill                                                       *)
(***************************************************************************)
\* HashMap::insert and HashMap::remove on a map kept as a function
MapPut(f, k, v) == [x \in DOMAIN f \cup {k} |-> IF x = k THEN v ELSE f[x]]
MapDrop(f, k) == [x \in DOMAIN f \ {k} |-> f[x]]

\* LightweightIndex::extract_keywords: the pieces of the lowercased content
\* between non-alphanumeric characters that are at least 3 bytes long
index_extract_keywords(content) ==
    LET lower == to_lowercase(content)
        pieces == SplitOn(lower, {c \in SeqToSet(lower) : ~is_alphanumeric(c)}, <<>>)
    IN  FilterSeq(pieces, {w \in SeqToSet(pieces) : ByteLen(w) >= 3})

RECURSIVE insert_keywords(_, _, _)
\* keywords.entry(keyword).or_default().insert(bullet_id), keyword by keyword
insert_keywords(kw, words, id) ==
    IF words = <<>> THEN kw
    ELSE insert_keywords(
             MapPut(kw, Head(words),
                    (IF Head(words) \in DOMAIN kw THEN kw[Head(words)] ELSE {}) \cup {id}),
             Tail(words), id)

RECURSIVE remove_keywords(_, _, _)
\* ids.remove(bullet_id) in each bucket of the bullet's keywords; a bucket
\* left empty is removed
remove_keywords(kw, words, id) ==
    IF words = <<>> THEN kw
    ELSE IF Head(words) \notin DOMAIN kw THEN remove_keywords(kw, Tail(words), id)
    ELSE remove_keywords(
             IF kw[Head(words)] \ {id} = {} THEN MapDrop(kw, Head(words))
             ELSE MapPut(kw, Head(words), kw[Head(words)] \ {id}),
             Tail(words), id)

\* LightweightIndex::add_bullet: the id map entry is inserted or replaced,
\* the id is pushed on its section's list, and put in its keywords' buckets;
\* the cache is not touched
index_add_bullet(ix, bullet) ==
    [by_id |-> MapPut(ix.by_id, bullet.id, bullet),
     by_section |-> MapPut(ix.by_section, bullet.section,
                           Append(IF bullet.section \in DOMAIN ix.by_section
                                  THEN ix.by_section[bullet.section] ELSE <<>>, bullet.id)),
     keywords |-> insert_keywords(ix.keywords, index_extract_keywords(bullet.content),
                                  bullet.id),
     hot_cache |-> ix.hot_cache]

\* LightweightIndex::remove_bullet: nothing without the id; else the bullet
\* of the id map leaves the map, its section's list, its keywords' buckets
\* and the cache
index_remove_bullet(ix, bullet_id) ==
    IF bullet_id \notin DOMAIN ix.by_id THEN ix
    ELSE LET bullet == ix.by_id[bullet_id]
         IN  [by_id |-> MapDrop(ix.by_id, bullet_id),
              by_section |->
                  IF bullet.section \in DOMAIN ix.by_section
                  THEN [ix.by_section EXCEPT ![bullet.section] =
                            FilterSeq(@, SeqToSet(@) \ {bullet_id})]
                  ELSE ix.by_section,
              keywords |-> remove_keywords(ix.keywords,
                                           index_extract_keywords(bullet.content), bullet_id),
              hot_cache |-> MapDrop(ix.hot_cache, bullet_id)]

RECURSIVE build_from_bullets(_, _)
\* the loop of build_from_playbook over all_bullets
build_from_bullets(ix, bullets) ==
    IF bullets = <<>> THEN ix
    ELSE build_from_bullets(index_add_bullet(ix, Head(bullets)), Tail(bullets))

\* LightweightIndex::build_from_playbook
build_from_playbook(pb, order) == build_from_bullets(LightweightIndex_new, all_bullets(pb, order))

\* a call of index.add_bullet(bullet)
IndexAdd(bullet) ==
    /\ steps < MaxSteps
    /\ steps' = steps + 1
    /\ index' = index_add_bullet(index, bullet)
    /\ last' = [op |-> "index_add", ok |-> TRUE, bullet |-> bullet, pre |-> index]
    /\ UNCHANGED <<file, archive, now, tasks, lock, mission, optimizer>>

\* a call of index.remove_bullet(bullet_id)
IndexRemove(bullet_id) ==
    /\ steps < MaxSteps
    /\ steps' = steps + 1
    /\ index' = index_remove_bullet(index, bullet_id)
    /\ last' = [op |-> "index_remove", ok |-> TRUE, id |-> bullet_id, pre |-> index]
    /\ UNCHANGED <<file, archive, now, tasks, lock, mission, optimizer>>

\* the index is rebuilt from a playbook of the bullets
IndexBuild(bullets, order) ==
    /\ steps < MaxSteps
    /\ steps' = steps + 1
    /\ index' = build_from_playbook(add_bullets(Playbook_new, bullets), order)
    /\ last' = [op |-> "index_build", ok |-> TRUE, bullets |-> bullets, pre |-> index]
    /\ UNCHANGED <<file, archive, now, tasks, lock, mission, optimizer>>

(***************************************************************************)
(* Index specification: bullets added, added again under the same id, and  *)
(* removed                                                                 *)
(***************************************************************************)
TextUseCargo == <<"U", "s", "e", " ", "c", "a", "r", "g", "o">>
TextRunCargo == <<"r", "u", "n", " ", "c", "a", "r", "g", "o">>
TextRunIt == <<"r", "u", "n", " ", "i", "t">>

\* two bullets that share a keyword, and a bullet with the id of the first
\* in another section with another content
IndexBullets ==
    {Bullet_new("i1", "General", TextUseCargo, 0),
     Bullet_new("i2", "General", TextRunCargo, 0),
     Bullet_new("i1", "ToolUsageTips", TextRunIt, 0)}
IndexIds == {"i1", "i2", "i3"}

IndexRebuild ==
    \E b1 \in IndexBullets, b2 \in IndexBullets, o \in SectionOrders :
        b1.id # b2.id /\ IndexBuild(<<b1, b2>>, o)

NextIndex ==
    \/ \E b \in IndexBullets : IndexAdd(b)
    \/ \E id \in IndexIds : IndexRemove(id)
    \/ IndexRebuild

SpecIndex == Init /\ [][NextIndex]_vars

(***************************************************************************)
(* Claims checked under SpecIndex                                          *)
(***************************************************************************)
\* the ids a section's list holds, none for a section without a list
SectionIds(ix, s) == IF s \in DOMAIN ix.by_section THEN ix.by_section[s] ELSE <<>>
\* the index built from scratch from the bullets the id map holds
Rebuilt == build_from_bullets(LightweightIndex_new,
                              SetToSeq({index.by_id[id] : id \in DOMAIN index.by_id}))

\* C28: after any sequence of add_bullet and remove_bullet the id map and
\* the keyword map equal those of the index built from scratch from the
\* bullets held, and each section's list holds the same ids as often.
C28_IndexEqualsRebuilt ==
    /\ index.by_id = Rebuilt.by_id
    /\ index.keywords = Rebuilt.keywords
    /\ \A s \in Sections : \A id \in IndexIds :
         Count(SectionIds(index, s), id) = Count(SectionIds(Rebuilt, s), id)
(***************************************************************************)
(* Mission todos (mission/types.rs, tools/handlers/plan.rs)                *)
(***************************************************************************)
\* MissionContext::update_todos: [mission, newly_completed]; the list is
\* replaced by new items with fresh ids and reflected = false, and an item
\* is newly completed when it is Completed and no item of the replaced list
\* with its step was
update_todos(m, new_steps) ==
    LET previously_completed ==
            {m.todos[i].step : i \in {i \in DOMAIN m.todos : m.todos[i].status = "Completed"}}
        todos == [i \in DOMAIN new_steps |->
                     [id |-> m.ids + i, step |-> new_steps[i][1], status |-> new_steps[i][2],
                      reflected |-> FALSE]]
    IN  [mission |-> [m EXCEPT !.todos = todos, !.ids = @ + Len(new_steps)],
         newly_completed |->
             FilterSeq(todos, {t \in SeqToSet(todos) :
                                  t.status = "Completed" /\ t.step \notin previously_completed})]

\* MissionContext::mark_todo_reflected: the first todo with the id, if any
mark_todo_reflected(m, todo_id) ==
    IF \E i \in DOMAIN m.todos : m.todos[i].id = todo_id
    THEN LET i == CHOOSE i \in DOMAIN m.todos :
                      /\ m.todos[i].id = todo_id
                      /\ \A j \in 1..(i - 1) : m.todos[j].id # todo_id
         IN  [m EXCEPT !.todos[i].reflected = TRUE, !.marked = @ \cup {todo_id}]
    ELSE m

\* MissionContext::get_unreflected_completed_todos
get_unreflected_completed_todos(m) ==
    FilterSeq(m.todos, {t \in SeqToSet(m.todos) : t.status = "Completed" /\ ~t.reflected})

RECURSIVE reflect_each(_, _)
\* the loop of handle_mission_todos: on_todo_completed runs the Reflector
\* for the todo's step, then the todo is marked as reflected
reflect_each(m, newly_completed) ==
    IF newly_completed = <<>> THEN m
    ELSE LET todo == Head(newly_completed)
             ran == [m EXCEPT !.reflector =
                        MapPut(@, todo.step,
                               (IF todo.step \in DOMAIN @ THEN @[todo.step] ELSE 0) + 1)]
         IN  reflect_each(mark_todo_reflected(ran, todo.id), Tail(newly_completed))

\* handle_mission_todos: the plan's steps replace the todos, and each newly
\* completed todo is reflected on
handle_mission_todos(m, plan) ==
    LET r == update_todos(m, plan) IN reflect_each(r.mission, r.newly_completed)

\* a call of the update_plan tool
UpdatePlan(plan) ==
    /\ steps < MaxSteps
    /\ steps' = steps + 1
    /\ mission' = handle_mission_todos(mission, plan)
    /\ last' = [op |-> "update_plan", ok |-> TRUE, plan |-> plan, pre |-> mission,
                newly_completed |-> update_todos(mission, plan).newly_completed]
    /\ UNCHANGED <<file, archive, now, tasks, lock, index, optimizer>>

(***************************************************************************)
(* Plan specification: plans of one or two steps in any status             *)
(***************************************************************************)
StepStatus == {"Pending", "InProgress", "Completed"}
\* the plans: the first step alone, or both steps
Plans ==
    {<<<<"step1", a>>>> : a \in StepStatus}
        \cup {<<<<"step1", a>>, <<"step2", b>>>> : a \in StepStatus, b \in StepStatus}

NextPlan == \E plan \in Plans : UpdatePlan(plan)

SpecPlan == Init /\ [][NextPlan]_vars

(***************************************************************************)
(* Claims checked under SpecPlan                                           *)
(***************************************************************************)
\* C29: over any sequence of plan updates the Reflector runs at most once
\* for each step, and a todo that was marked as reflected is not among the
\* unreflected completed todos.
C29_ReflectorRunsOncePerStep ==
    /\ \A step \in DOMAIN mission.reflector : mission.reflector[step] <= 1
    /\ \A i \in DOMAIN get_unreflected_completed_todos(mission) :
         get_unreflected_completed_todos(mission)[i].id \notin mission.marked
(***************************************************************************)
(* Distance specification: levenshtein_distance applied to two strings     *)
(***************************************************************************)
\* the longest string compared
MaxLen == 3
\* the alphabet: two letters and an ideograph of three bytes
LevChars == {"a", "b", "U4E2D"}

RECURSIVE StringsUpTo(_)
\* the strings over the alphabet of at most n characters
StringsUpTo(n) ==
    IF n = 0 THEN {<<>>}
    ELSE StringsUpTo(n - 1)
            \cup {Append(s, c) : s \in {t \in StringsUpTo(n - 1) : Len(t) = n - 1}, c \in LevChars}

\* the one call of levenshtein_distance(s1, s2) of a run, and the call with
\* the arguments swapped
Distance(s1, s2) ==
    /\ last.op = "init"
    /\ last' = [op |-> "levenshtein_distance", ok |-> TRUE, s1 |-> s1, s2 |-> s2,
                distance |-> levenshtein_distance(s1, s2),
                swapped |-> levenshtein_distance(s2, s1)]
    /\ UNCHANGED <<file, archive, now, steps, index, mission, optimizer, tasks, lock>>

NextDistance == \E s1 \in StringsUpTo(MaxLen), s2 \in StringsUpTo(MaxLen) : Distance(s1, s2)

SpecDistance == Init /\ [][NextDistance]_vars

(***************************************************************************)
(* Claims checked under SpecDistance                                       *)
(***************************************************************************)
\* the strings one insertion, deletion or substitution away from s, of at
\* most MaxLen + 1 characters
OneEdit(s) ==
    {SubSeq(s, 1, i - 1) \o SubSeq(s, i + 1, Len(s)) : i \in DOMAIN s}
        \cup {[s EXCEPT ![i] = c] : i \in DOMAIN s, c \in LevChars}
        \cup (IF Len(s) > MaxLen THEN {}
              ELSE {SubSeq(s, 1, i) \o <<c>> \o SubSeq(s, i + 1, Len(s)) :
                        i \in 0..Len(s), c \in LevChars})

RECURSIVE EditRounds(_, _, _)
\* the least number of rounds of single edits after which target is reached
EditRounds(reached, target, k) ==
    IF target \in reached THEN k
    ELSE EditRounds(reached \cup UNION {OneEdit(s) : s \in reached}, target, k + 1)

MinEdits(s1, s2) == EditRounds({s1}, s2, 0)

\* C30: levenshtein_distance is symmetric, is 0 for equal strings, is the
\* number of characters of the other string when one string is empty, and
\* equals the least number of single-character insertions, deletions and
\* substitutions that turn the first string into the second.
C30_DistanceIsMinimalEditCount ==
    last.op = "levenshtein_distance"
    => /\ last.distance = last.swapped
       /\ last.s1 = last.s2 => last.distance = 0
       /\ last.s1 = <<>> => last.distance = Len(last.s2)
       /\ last.s2 = <<>> => last.distance = Len(last.s1)
       /\ last.distance = MinEdits(last.s1, last.s2)

\* an empty string against ideographs, and two strings of different lengths
\* two edits apart
C30_Witness ==
    /\ last.op = "levenshtein_distance"
    /\ \/ last.s1 = <<>> /\ last.s2 = <<"U4E2D", "U4E2D">> /\ last.distance = 2
       \/ Len(last.s1) = 2 /\ Len(last.s2) = 3 /\ last.distance = 2 /\ last.swapped = 2
(***************************************************************************)
(* Similarity specification: the similarity functions applied to two       *)
(* strings, in both argument orders                                        *)
(***************************************************************************)
\* the one comparison of a run: similarity_score, ngram_similarity for
\* n = 2 and n = 3, and combined_similarity, each also with the arguments
\* swapped
Similarity(s1, s2) ==
    /\ last.op = "init"
    /\ last' = [op |-> "similarity", ok |-> TRUE, s1 |-> s1, s2 |-> s2,
                score |-> similarity_score(s1, s2),
                bigram |-> ngram_similarity(s1, s2, 2),
                bigram_swapped |-> ngram_similarity(s2, s1, 2),
                trigram |-> ngram_similarity(s1, s2, 3),
                trigram_swapped |-> ngram_similarity(s2, s1, 3),
                combined |-> combined_similarity(s1, s2),
                combined_swapped |-> combined_similarity(s2, s1)]
    /\ UNCHANGED <<file, archive, now, steps, index, mission, optimizer, tasks, lock>>

NextSimilarity ==
    \E s1 \in StringsUpTo(MaxLen), s2 \in StringsUpTo(MaxLen) : Similarity(s1, s2)

SpecSimilarity == Init /\ [][NextSimilarity]_vars

(***************************************************************************)
(* Claims checked under SpecSimilarity                                     *)
(***************************************************************************)
\* 1 - distance / max(len) with both lengths counted in characters
CharSimilarity(s1, s2) ==
    LET max_len == Max2(Len(s1), Len(s2))
    IN  IF max_len = 0 THEN RInt(1)
        ELSE Rat(max_len - levenshtein_distance(s1, s2), max_len)

\* C31: similarity_score(a, b) equals 1 - levenshtein(a, b) / max(len(a),
\* len(b)) with the lengths counted in characters, lies in [0, 1], is 1 for
\* equal strings, and is 0 for two strings of equal length that differ at
\* every position.
C31_ScoreIsCharBased ==
    last.op = "similarity"
    => /\ last.score = CharSimilarity(last.s1, last.s2)
       /\ RGe(last.score, RInt(0)) /\ RLe(last.score, RInt(1))
       /\ last.s1 = last.s2 => last.score = RInt(1)
       /\ (/\ Len(last.s1) = Len(last.s2) /\ Len(last.s1) > 0
           /\ \A i \in DOMAIN last.s1 : last.s1[i] # last.s2[i])
          => last.score = RInt(0)

\* C36: ngram_similarity for n = 2 and n = 3 and combined_similarity give
\* the same value in both argument orders.
C36_SimilarityIsSymmetric ==
    last.op = "similarity"
    => /\ last.bigram = last.bigram_swapped
       /\ last.trigram = last.trigram_swapped
       /\ last.combined = last.combined_swapped
(***************************************************************************)
(* Learning tasks side by side: each tokio::spawn of on_todo_completed and *)
(* post_execute ends in storage.merge_delta(delta) on the shared, unlocked *)
(* BulletStorage                                                           *)
(***************************************************************************)
\* the two learning tasks in flight
Learners == {"merge", "learn"}

\* the merge learner p is making: the playbook from what it loaded, the
\* snapshot into the archive directory as it is when auto_archive writes
LearnOutcome(p) ==
    merge_delta_apply(tasks[p].snap, archive, tasks[p].delta, tasks[p].at,
                      tasks[p].order, MaxBullets)

\* merge_delta of learner p up to its load
LearnLoad(p, delta, order) ==
    /\ tasks[p].pc = "idle"
    /\ ~is_empty(delta)
    /\ tasks' = [tasks EXCEPT ![p] =
                    [pc |-> IF load_playbook(file).ok THEN "loaded" ELSE "failed",
                     snap |-> file, preArchive |-> archive, delta |-> delta,
                     order |-> order, at |-> now]]
    /\ UNCHANGED <<file, archive, now, last, steps, index, mission, optimizer, lock>>

\* over the limit: auto_archive writes the snapshot of the merged playbook
LearnArchive(p) ==
    /\ tasks[p].pc = "loaded"
    /\ LearnOutcome(p).trimmed
    /\ archive' = LearnOutcome(p).archive
    /\ tasks' = [tasks EXCEPT ![p] = [@ EXCEPT !.pc = "archived"]]
    /\ UNCHANGED <<file, now, last, steps, index, mission, optimizer, lock>>

\* save_playbook, first half: the file is created or truncated
LearnWriteBegin(p) ==
    /\ \/ tasks[p].pc = "loaded" /\ ~LearnOutcome(p).trimmed
       \/ tasks[p].pc = "archived"
    /\ file' = write_begin(file)
    /\ tasks' = [tasks EXCEPT ![p] = [@ EXCEPT !.pc = "writing"]]
    /\ UNCHANGED <<archive, now, last, steps, index, mission, optimizer, lock>>

\* save_playbook, second half: the bytes are all written and merge_delta
\* returns Ok
LearnWriteEnd(p) ==
    /\ tasks[p].pc = "writing"
    /\ file' = LearnOutcome(p).file
    /\ tasks' = [tasks EXCEPT ![p] = [@ EXCEPT !.pc = "done"]]
    /\ UNCHANGED <<archive, now, last, steps, index, mission, optimizer, lock>>

(***************************************************************************)
(* Learn specification: a seeded store and two learning tasks, each with   *)
(* a delta of one new bullet                                               *)
(***************************************************************************)
\* the bullet learner p adds
LearnNew(p, t) ==
    IF p = "merge" THEN Bullet_new("b4", "ToolUsageTips", TextTesa, t)
    ELSE Bullet_new("b5", "General", TextBuild, t)

LearnStart ==
    \E p \in Learners, o \in SectionOrders :
        LearnLoad(p, [new_bullets |-> <<LearnNew(p, now)>>, updated_bullets |-> <<>>], o)
LearnTrim == \E p \in Learners : LearnArchive(p)
LearnTruncate == \E p \in Learners : LearnWriteBegin(p)
LearnSave == \E p \in Learners : LearnWriteEnd(p)

NextLearn ==
    \/ SeedPlugin
    \/ LearnStart
    \/ LearnTrim
    \/ LearnTruncate
    \/ LearnSave

SpecLearn == Init /\ [][NextLearn]_vars

(***************************************************************************)
(* Claims checked under SpecLearn                                          *)
(***************************************************************************)
\* the ids in the playbook file and in every snapshot of the archive
PersistedIds ==
    {b.id : b \in SeqToSet(all_bullets(file.pb, CHOOSE o \in SectionOrders : TRUE))}
        \cup UNION {{b.id : b \in SeqToSet(all_bullets(archive[n],
                                                      CHOOSE o \in SectionOrders : TRUE))} :
                        n \in DOMAIN archive}

\* C32: once every learning task has finished, each bullet of each delta
\* whose merge_delta returned Ok is in the playbook file or in a snapshot of
\* the archive.
C32_NoSuccessfulIngestIsLost ==
    (\A p \in Learners : tasks[p].pc \in {"done", "failed"})
    => \A p \in Learners :
           tasks[p].pc = "done"
           => \A i \in DOMAIN tasks[p].delta.new_bullets :
                  tasks[p].delta.new_bullets[i].id \in PersistedIds
(***************************************************************************)
(* Dedup specification: bullets of distinct ids whose contents repeat one  *)
(* character, and maintenance passes                                       *)
(***************************************************************************)
TextA9 == <<"a", "a", "a", "a", "a", "a", "a", "a", "a">>
TextA7 == SubSeq(TextA9, 1, 7)

\* the bullets a delta of this specification may add at time t
DedupBullets(t) ==
    {BulletWith("d1", "General", TextA9, t, Rat(5, 10), None),
     BulletWith("d2", "General", TextA7, t, Rat(5, 10), None),
     BulletWith("d3", "ToolUsageTips", Text8, t, Rat(8, 10), None)}

MergeDedup ==
    \E b \in DedupBullets(now), o \in SectionOrders :
        MergeDelta([new_bullets |-> <<b>>, updated_bullets |-> <<>>], o)

NextDedup ==
    \/ MergeDedup
    \/ MaintenancePass
    \/ Tick(1)

SpecDedup == Init /\ [][NextDedup]_vars

(***************************************************************************)
(* Claims checked under SpecDedup                                          *)
(***************************************************************************)
\* C35: after the dedup phase no two bullets that remain are near-duplicates,
\* in either argument order.
C35_NoNearDuplicatesRemain ==
    (last.op = "optimize" /\ last.ok)
    => LET left == all_bullets(last.deduped.pb, last.order)
       IN  \A i \in DOMAIN left : \A j \in DOMAIN left :
               i # j => ~NearDuplicates(left[i], left[j])
(***************************************************************************)
(* LightweightIndex lookups: get_by_id and search read the recency cache   *)
(* before the id map and put what they return into it                      *)
(***************************************************************************)
\* LightweightIndex::get_by_id: [index, out]; a cached bullet is returned as
\* it is, a bullet of the id map is put into the cache
index_get_by_id(ix, id) ==
    IF id \in DOMAIN ix.hot_cache THEN [index |-> ix, out |-> Some(ix.hot_cache[id])]
    ELSE IF id \in DOMAIN ix.by_id
    THEN [index |-> [ix EXCEPT !.hot_cache = MapPut(@, id, ix.by_id[id])],
          out |-> Some(ix.by_id[id])]
    ELSE [index |-> ix, out |-> None]

\* LightweightIndex::text_similarity
text_similarity(query, content) ==
    combined_similarity(normalize_text(query, FALSE), normalize_text(content, FALSE))

\* text_score * 0.6 + min(weight / 5, 1) * 0.4
final_score(query, bullet, t) ==
    LET weight == RMul(calculate_dynamic_weight(bullet, t), Rat(1, 5))
        normalized_weight == IF RLt(weight, RInt(1)) THEN weight ELSE RInt(1)
    IN  RAdd(RMul(text_similarity(query, bullet.content), Rat(6, 10)),
             RMul(normalized_weight, Rat(4, 10)))

RECURSIVE cache_put_all(_, _)
\* hot_cache.put(bullet.id, bullet) for each result
cache_put_all(cache, results) ==
    IF results = <<>> THEN cache
    ELSE cache_put_all(MapPut(cache, Head(results).id, Head(results)), Tail(results))

\* the bullets of the candidate ids in the order cands: the cached bullet
\* first, else the bullet of the id map, else nothing
candidate_bullets(ix, cands) ==
    LET known == FilterSeq(cands, DOMAIN ix.hot_cache \cup DOMAIN ix.by_id)
    IN  [i \in DOMAIN known |->
            IF known[i] \in DOMAIN ix.hot_cache THEN ix.hot_cache[known[i]]
            ELSE ix.by_id[known[i]]]

\* the ids in the buckets of the query's keywords
search_candidates(ix, query) ==
    UNION {ix.keywords[k] : k \in SeqToSet(index_extract_keywords(query)) \cap DOMAIN ix.keywords}

\* LightweightIndex::search with the candidates iterated in the order cands:
\* [index, out]; the best `limit` bullets by final score are put into the
\* cache and returned
index_search(ix, query, limit, cands, t) ==
    LET bullets == candidate_bullets(ix, cands)
        sorted == SortDesc([i \in DOMAIN bullets |->
                               [k |-> final_score(query, bullets[i], t), v |-> bullets[i]]],
                           <<>>)
        taken == Take(sorted, limit)
        results == [i \in DOMAIN taken |-> taken[i].v]
    IN  IF index_extract_keywords(query) = <<>> \/ cands = <<>>
        THEN [index |-> ix, out |-> <<>>]
        ELSE [index |-> [ix EXCEPT !.hot_cache = cache_put_all(@, results)],
              out |-> results]

\* the orders in which a HashSet may iterate its elements
Orderings(S) ==
    {s \in [1..Cardinality(S) -> S] : \A i, j \in 1..Cardinality(S) : i # j => s[i] # s[j]}

\* a call of index.get_by_id(id)
IndexGet(id) ==
    /\ steps < MaxSteps
    /\ steps' = steps + 1
    /\ index' = index_get_by_id(index, id).index
    /\ last' = [op |-> "index_get", ok |-> TRUE, id |-> id, pre |-> index,
                out |-> index_get_by_id(index, id).out]
    /\ UNCHANGED <<file, archive, now, tasks, lock, mission, optimizer>>

\* a call of index.search(query, limit)
IndexSearch(query, limit) ==
    /\ steps < MaxSteps
    /\ steps' = steps + 1
    /\ \E cands \in Orderings(search_candidates(index, query)) :
         /\ index' = index_search(index, query, limit, cands, now).index
         /\ last' = [op |-> "index_search", ok |-> TRUE, query |-> query, pre |-> index,
                     out |-> index_search(index, query, limit, cands, now).out]
    /\ UNCHANGED <<file, archive, now, tasks, lock, mission, optimizer>>

(***************************************************************************)
(* Cache specification: bullets added, added again under the same id,      *)
(* removed, looked up and searched                                         *)
(***************************************************************************)
TextCargoQuery == <<"c", "a", "r", "g", "o">>
\* the limits of a search: the best result, or the best two
SearchLimits == {1, 2}

CacheAdd == \E b \in IndexBullets : IndexAdd(b)
CacheRemove == \E id \in IndexIds : IndexRemove(id)
CacheGet == \E id \in IndexIds : IndexGet(id)
CacheSearch == \E limit \in SearchLimits : IndexSearch(TextCargoQuery, limit)

NextCache ==
    \/ CacheAdd
    \/ CacheRemove
    \/ CacheGet
    \/ CacheSearch

SpecCache == Init /\ [][NextCache]_vars

(***************************************************************************)
(* Claims checked under SpecCache                                          *)
(***************************************************************************)
\* C37: every id in the cache is in the id map with an identical bullet,
\* and get_by_id returns the bullet the id map holds for the id (the one
\* most recently added under it), or None when the id map has none.
C37_CacheAgreesWithIdMap ==
    /\ \A id \in DOMAIN index.hot_cache :
         id \in DOMAIN index.by_id /\ index.by_id[id] = index.hot_cache[id]
    /\ last.op = "index_get"
       => last.out = (IF last.id \in DOMAIN last.pre.by_id
                      THEN Some(last.pre.by_id[last.id]) ELSE None)
(***************************************************************************)
(* BackgroundOptimizer::record_call: the counter is an AtomicU64, each     *)
(* call takes its count with fetch_add and then decides on its own         *)
(***************************************************************************)
\* the count a call is handed if fetch_add's previous value is used as it is
fetch_add_previous(opt) == opt.call_count

\* self.call_count.fetch_add(1, Ordering::Relaxed) + 1: the count of this call
fetch_add_count(opt) == opt.call_count + 1

\* u64::is_multiple_of: of 0 only 0 is a multiple
is_multiple_of(count, n) == IF n = 0 THEN count = 0 ELSE count % n = 0

\* BackgroundOptimizer::new with a configuration of trigger_every_n_calls = n
NewOptimizer(n) ==
    /\ optimizer = BackgroundOptimizer_new(OptimizerConfig_trigger_default)
    /\ optimizer' = BackgroundOptimizer_new(n)
    /\ UNCHANGED <<file, archive, now, last, steps, tasks, lock, index, mission>>

\* record_call of caller c, the atomic read-modify-write: the counter goes up
\* by one (its 64 bits do not wrap within the calls of a run) and the call
\* keeps its own count
RecordCallCount(c) ==
    /\ optimizer.calls[c].pc = "idle"
    /\ optimizer' = [optimizer EXCEPT
                        !.call_count = @ + 1,
                        !.calls[c] = [pc |-> "counted", count |-> fetch_add_count(optimizer)]]
    /\ UNCHANGED <<file, archive, now, last, steps, tasks, lock, index, mission>>

\* record_call of caller c, the rest: a count that is a multiple of
\* trigger_every_n_calls spawns one maintenance pass
RecordCallTrigger(c) ==
    /\ optimizer.calls[c].pc = "counted"
    /\ optimizer' = [optimizer EXCEPT
                        !.spawned = IF is_multiple_of(optimizer.calls[c].count,
                                                      optimizer.trigger_every_n_calls)
                                    THEN Append(@, optimizer.calls[c].count) ELSE @,
                        !.calls[c] = [@ EXCEPT !.pc = "done"]]
    /\ UNCHANGED <<file, archive, now, last, steps, tasks, lock, index, mission>>

(***************************************************************************)
(* Trigger specification: an optimizer with trigger_every_n_calls = N and  *)
(* callers of record_call in any interleaving                              *)
(***************************************************************************)
Configure == \E n \in 1..MaxEvery : NewOptimizer(n)
CallCount == \E c \in Callers : RecordCallCount(c)
CallTrigger == \E c \in Callers : RecordCallTrigger(c)

NextTrigger ==
    \/ Configure
    \/ CallCount
    \/ CallTrigger

SpecTrigger == Init /\ [][NextTrigger]_vars

(***************************************************************************)
(* Claims checked under SpecTrigger                                        *)
(***************************************************************************)
\* the callers that took a count, and those still to decide
Counted == {c \in Callers : optimizer.calls[c].pc \in {"counted", "done"}}
Deciding == {c \in Callers : optimizer.calls[c].pc = "counted"}
\* the multiples of trigger_every_n_calls among the counts handed out
DueCounts == {k \in 1..optimizer.call_count : k % optimizer.trigger_every_n_calls = 0}

\* C38: for trigger_every_n_calls = N >= 1 no two calls are handed the same
\* count, no pass is spawned twice for one count, every spawned pass belongs
\* to a multiple of N, and once the M calls made have all returned exactly
\* floor(M / N) passes have been spawned, one for each multiple of N up to M.
C38_OnePassPerMultiple ==
    optimizer.trigger_every_n_calls >= 1
    => /\ \A c, d \in Counted :
            c # d => optimizer.calls[c].count # optimizer.calls[d].count
       /\ {optimizer.calls[c].count : c \in Counted} = 1..optimizer.call_count
       /\ \A i, j \in DOMAIN optimizer.spawned :
            i # j => optimizer.spawned[i] # optimizer.spawned[j]
       /\ SeqToSet(optimizer.spawned) \subseteq DueCounts
       /\ Deciding = {}
          => /\ Len(optimizer.spawned)
                  = optimizer.call_count \div optimizer.trigger_every_n_calls
             /\ SeqToSet(optimizer.spawned) = DueCounts

\* four calls with N = 2 have all returned; the call that was handed count 4
\* decided before the call that was handed count 2
C38_Witness ==
    /\ optimizer.trigger_every_n_calls = 2
    /\ \A c \in 1..4 : optimizer.calls[c].pc = "done"
    /\ optimizer.call_count >= 4
    /\ \E i, j \in DOMAIN optimizer.spawned :
         i < j /\ optimizer.spawned[i] = 4 /\ optimizer.spawned[j] = 2
(***************************************************************************)
(* merge_delta returning an error: each `?` of its body is a way out       *)
(***************************************************************************)
\* auto_archive's fs::write of the snapshot returns Err before anything is
\* written (the archive directory is missing or not writable); merge_delta
\* returns the error
LearnArchiveFails(p) ==
    /\ tasks[p].pc = "loaded"
    /\ LearnOutcome(p).trimmed
    /\ tasks' = [tasks EXCEPT ![p] = [@ EXCEPT !.pc = "failed"]]
    /\ UNCHANGED <<file, archive, now, last, steps, index, mission, optimizer, lock>>

\* save_playbook's fs::write returns Err, either before it touched the file
\* or after it truncated it; merge_delta returns the error
LearnSaveFails(p, torn) ==
    /\ \/ tasks[p].pc = "loaded" /\ ~LearnOutcome(p).trimmed
       \/ tasks[p].pc = "archived"
    /\ file' = IF torn THEN write_begin(file) ELSE file
    /\ tasks' = [tasks EXCEPT ![p] = [@ EXCEPT !.pc = "failed"]]
    /\ UNCHANGED <<archive, now, last, steps, index, mission, optimizer, lock>>

\* the learning task logs the result of merge_delta and ends; the host may
\* spawn the next one
LearnEnds(p) ==
    /\ tasks[p].pc \in {"done", "failed"}
    /\ steps < MaxSteps
    /\ steps' = steps + 1
    /\ tasks' = [tasks EXCEPT ![p] = IdleTask]
    /\ UNCHANGED <<file, archive, now, last, index, mission, optimizer, lock>>

(***************************************************************************)
(* Merge fault specification: merge_delta in steps over a seeded or        *)
(* damaged store, with failing writes                                      *)
(***************************************************************************)
FaultyMergeStart ==
    \E b \in PluginNew(now), o \in SectionOrders :
        LearnLoad("merge", [new_bullets |-> <<b>>, updated_bullets |-> <<>>], o)
FaultyMergeArchive == LearnArchive("merge")
FaultyMergeTruncate == LearnWriteBegin("merge")
FaultyMergeSave == LearnWriteEnd("merge")
ArchiveWriteFails == LearnArchiveFails("merge")
SaveWriteFails == \E torn \in BOOLEAN : LearnSaveFails("merge", torn)
FaultyMergeEnds == LearnEnds("merge")

NextMergeFault ==
    \/ SeedPlugin
    \/ Corrupt
    \/ FaultyMergeStart
    \/ FaultyMergeArchive
    \/ FaultyMergeTruncate
    \/ FaultyMergeSave
    \/ ArchiveWriteFails
    \/ SaveWriteFails
    \/ FaultyMergeEnds

SpecMergeFault == Init /\ [][NextMergeFault]_vars

(***************************************************************************)
(* Claims checked under SpecMergeFault                                     *)
(***************************************************************************)
\* C39: when merge_delta has returned an error, the playbook file is what
\* it was when the call began and the archive directory holds the files it
\* held then.
C39_FailedMergeChangesNothing ==
    tasks["merge"].pc = "failed"
    => /\ file = tasks["merge"].snap
       /\ archive = tasks["merge"].preArchive
(***************************************************************************)
(* Fuzzy specification: bullets that only resemble a query, a bullet that  *)
(* holds none of its terms, and a bullet of ideographs set apart by spaces *)
(***************************************************************************)
TextSpacedChinese == <<"U4E2D", " ", "U6587", " ", "U6D4B">>
TextThreeChinese == <<"U4E2D", "U6587", "U6D4B">>

\* the bullets a delta of this specification may add at time t
FuzzyBullets(t) ==
    {Bullet_new("f1", "General", TextIsRusk, t),
     Bullet_new("f2", "General", TextThaw, t),
     Bullet_new("f3", "ToolUsageTips", TextSpacedChinese, t)}

\* the queries: a question with one keyword, and a run of three ideographs
FuzzyQueries == {TextIsRust, TextThreeChinese}

MergeFuzzy ==
    \E b \in FuzzyBullets(now), o \in SectionOrders :
        MergeDelta([new_bullets |-> <<b>>, updated_bullets |-> <<>>], o)
QueryFuzzy ==
    \E q \in FuzzyQueries, k \in 0..MaxK, o \in SectionOrders : QueryBullets(q, k, o)

NextFuzzy ==
    \/ MergeFuzzy
    \/ QueryFuzzy

SpecFuzzy == Init /\ [][NextFuzzy]_vars

(***************************************************************************)
(* Claims checked under SpecFuzzy                                          *)
(***************************************************************************)
LastKeywords == extract_keywords(to_lowercase(last.query))
\* the content does not hold the query, and no keyword of the query occurs
\* in the content or in the tags
NoLexicalMatch(b) ==
    /\ ~LiteralMatch(b)
    /\ \A i \in DOMAIN LastKeywords :
         /\ ~Contains(to_lowercase(b.content), LastKeywords[i])
         /\ ~Contains(to_lowercase(JoinWith(b.tags, <<" ">>)), LastKeywords[i])
\* combined similarity of the normalized query and the normalized content
QuerySimilarity(b) ==
    combined_similarity(normalize_text(to_lowercase(last.query), TRUE),
                        normalize_text(to_lowercase(b.content), TRUE))

\* C40: for a query with at least one keyword, a stored bullet without a
\* lexical match whose similarity to the query is at most 0.7 scores at
\* most 2.0 and is not returned; a query for which every stored bullet is
\* such a bullet returns an empty list.
C40_FuzzyNeedsHighSimilarity ==
    (last.op = "query_bullets" /\ last.ok /\ LastKeywords # <<>>)
    => /\ \A b \in SeqToSet(Stored) :
            (NoLexicalMatch(b) /\ RLe(QuerySimilarity(b), HIGH_MATCH_THRESHOLD))
            => /\ RLe(LastScore(b), ScoreFloor)
               /\ b \notin SeqToSet(last.out)
       /\ (\A b \in SeqToSet(Stored) :
              NoLexicalMatch(b) /\ RLe(QuerySimilarity(b), HIGH_MATCH_THRESHOLD))
          => last.out = <<>>

=============================================================================
